---- MODULE Spec2Model ----
(***************************************************************************)
(* A model of the weather agent's failure-explicit pipeline:               *)
(*   - the Result algebra and the error constructors (utils/result.ts),    *)
(*   - the two weather pipelines, getWeather (tools/index.ts) and          *)
(*     fetchWeatherData (workflows/index.ts),                              *)
(*   - the HTTP entry points of server.ts and getWeatherData,            *)
(*   - the LINE chat adapter of server.ts.                                 *)
(* JavaScript values whose type is open (optional fields, request input,   *)
(* parsed JSON) are tagged records [t |-> <typeof>, ...]; values whose     *)
(* TypeScript type is closed (string arguments, numbers of a response) are *)
(* plain strings and integers.                                             *)
(***************************************************************************)
EXTENDS Integers, Sequences, FiniteSets, TLC

VARIABLES
  \* ---- one invocation of getWeather / fetchWeatherData
  pc,               \* "idle" | "awaitGeocoding" | "awaitWeather" | "returned" | "threw"
  fn,               \* "none" | "getWeather" | "fetchWeatherData"
  location,         \* the place name the function was called with
  geocodingResult,  \* Result of the first fromPromise, Pending before it settles
  weatherResult,    \* Result of the second fromPromise, Pending before it settles
  calls,            \* the fetch calls made so far, in order
  settled,          \* how the promises of those calls settled, in order
  trace,            \* the steps taken so far, in order
  outcome,          \* how the async function completed: Pending | Return(r) | Throw(x)
  decoded,          \* the calls of getWeatherCondition so far: decoder, code, text
  \* ---- one request to GET /api/weather or POST /api/weather/suggest
  hpc,              \* "idle" | "awaitAgent" | "adapter" | "responded"
  route,            \* "none" | "GET /api/weather" | "POST /api/weather/suggest"
  request,          \* req.query of the GET, req.body of the POST
  validationResult, \* Result of validateWeatherRequest / validateSuggestRequest
  agentCalls,       \* the collaborator calls made for the request, in order
  generated,        \* how the promise of agent.generate settled, Pending before
  dataResult,       \* weatherResult of the handler: the Result of getWeatherData
  responses,        \* the responses sent for the request, in order
  \* ---- one event handed to handleEvent
  cpc,              \* "idle" | "awaitAgent" | "awaitReply" | "done"
  event,            \* the WebhookEvent
  cityResult,       \* Result of parseMessageForCity, Pending before
  chatCalls,        \* the collaborator calls getWeatherData made for the event
  chatGenerated,    \* how the promise of agent.generate settled, Pending before
  chatWeatherResult,\* weatherResult of handleEvent: the Result of getWeatherData
  replies,          \* the calls of client.replyMessage, in order
  handled,          \* how the promise of handleEvent settled, Pending before
  \* ---- two invocations of getWeather / getWeatherData in flight together
  inv,              \* the frame of each invocation: its locals and its completion
  \* ---- one delivery to POST /api/line/webhook
  hook,             \* the events, the frame of each handleEvent, the responses sent
  \* ---- the Result algebra applied to a value
  a0,               \* how that Result was made: constructor and argument
  r0,               \* the Result the chain starts from
  r,                \* the current Result (a settled promise after andThenAsync)
  ops,              \* the composition functions applied so far, in order
  spy,              \* every invocation of a function handed to them, in order
  last              \* the last application: operation, input, function, output

pipeVars ==
  <<pc, fn, location, geocodingResult, weatherResult, calls, settled, trace, outcome,
    decoded>>
httpVars ==
  <<hpc, route, request, validationResult, agentCalls, generated, dataResult, responses>>
algVars  == <<a0, r0, r, ops, spy, last>>
chatVars ==
  <<cpc, event, cityResult, chatCalls, chatGenerated, chatWeatherResult, replies,
    handled>>
vars     == <<pipeVars, httpVars, algVars, chatVars, inv, hook>>

----------------------------------------------------------------------------
(* Bounds of the model *)

\* the most events one webhook delivery carries
MaxEvents == 2

\* the longest candidate list a geocoding response carries
MaxCandidates == 2
\* the longest hourly array a forecast response carries
MaxHourly == 2
\* the longest chain of composition functions applied to one Result
MaxChain == 3
\* the largest WMO weather code a decoder is called with, short of 999
MaxCode == 100
\* the most pieces a chat message is made of
MaxWords == 2

----------------------------------------------------------------------------
(* JavaScript values *)

Undefined == [t |-> "undefined"]
Null      == [t |-> "null"]
Str(s)    == [t |-> "string", v |-> s]
Num(n)    == [t |-> "number", n |-> n]
Obj       == [t |-> "object"]

\* ToBoolean, as used by !x, x ? a : b and x || y
Truthy(x) ==
  CASE x.t = "undefined" -> FALSE
    [] x.t = "null"      -> FALSE
    [] x.t = "string"    -> x.v # ""
    [] x.t = "number"    -> x.n # 0
    [] OTHER             -> TRUE

\* how a call or an async function completes
Return(v) == [threw |-> FALSE, v |-> v]
Throw(x)  == [threw |-> TRUE, v |-> x]

\* a settled promise
Fulfilled(v) == [settled |-> "fulfilled", value |-> v]
Rejected(x)  == [settled |-> "rejected", reason |-> x]

Pending == [kind |-> "pending"]

\* the failures a collaborator call can reject with (network failure, unparseable body)
Reasons ==
  { [t |-> "error", name |-> "TypeError", message |-> "fetch failed"],
    [t |-> "error", name |-> "SyntaxError", message |-> "Unexpected token < in JSON"],
    [t |-> "error", name |-> "AbortError", message |-> "The operation was aborted"] }

\* what a property access on null or undefined throws
TypeError == [t |-> "error", name |-> "TypeError", message |-> "Cannot read properties"]

----------------------------------------------------------------------------
(* utils/result.ts: the Result type *)

\* mutant: the discriminant is misspelt
ok_typo(value) == [kind |-> "Ok", value |-> value]

ok(value) == [kind |-> "ok", value |-> value]

err(error) == [kind |-> "err", error |-> error]

isOk(result) == result.kind = "ok"

\* mutant: everything that is a Result counts as an Err
isErr_anyResult(result) == result.kind \in {"ok", "err"}

isErr(result) == result.kind = "err"

\* mutant: the error slot is handed back in place of the value
unwrap_otherSlot(result) ==
  IF isOk(result) THEN Return(result.value) ELSE Return(result.error)

unwrap(result) ==
  IF isOk(result) THEN Return(result.value)
  ELSE Throw([t |-> "error", name |-> "Error", message |-> "Called unwrap on Err value"])

\* mutant: the discriminant is handed back in place of the error
unwrapErr_kind(result) ==
  IF isErr(result) THEN Return(result.kind)
  ELSE Throw([t |-> "error", name |-> "Error", message |-> "Called unwrapErr on Ok value"])

unwrapErr(result) ==
  IF isErr(result) THEN Return(result.error)
  ELSE Throw([t |-> "error", name |-> "Error", message |-> "Called unwrapErr on Ok value"])

\* promise.then(ok).catch(e => err(mapError(e))), given the settled promise;
\* mapError is a function of the caught failure
\* mutant: mapError is applied to a failure other than the caught one
fromPromise_wrongReason(promise, mapError) ==
  IF promise.settled = "fulfilled" THEN ok(promise.value)
  ELSE err(mapError[CHOOSE x \in DOMAIN mapError : x # promise.reason])

fromPromise(promise, mapError) ==
  IF promise.settled = "fulfilled" THEN ok(promise.value)
  ELSE err(mapError[promise.reason])

\* the call as a whole: the promise fromPromise returns, once the promise it was
\* given has settled (ret), and the failures .catch handed to mapError (invoked).
\* Neither callback throws: ok and err do not, and mapError returns an error.
fromPromise_settled(promise, mapError) ==
  [ret |-> Fulfilled(fromPromise(promise, mapError)),
   invoked |-> IF promise.settled = "fulfilled" THEN <<>> ELSE <<promise.reason>>]

\* mutant: an Err is fatal here as it is for unwrap
unwrapOr_throws(result, defaultValue) ==
  IF isOk(result) THEN Return(result.value)
  ELSE Throw([t |-> "error", name |-> "Error", message |-> "Called unwrapOr on Err value"])

unwrapOr(result, defaultValue) ==
  IF isOk(result) THEN Return(result.value) ELSE Return(defaultValue)

(* utils/result.ts: the error constructors *)

errors_validation(message, field) ==
  [kind |-> "validation", message |-> message, field |-> field]

\* mutant: the id is not carried
errors_notFound_noId(resource, id) ==
  [kind |-> "not-found",
   message |-> resource \o " not found",
   resource |-> resource,
   id |-> Undefined]

errors_notFound(resource, id) ==
  [kind |-> "not-found",
   message |-> IF Truthy(id) THEN resource \o " '" \o id.v \o "' not found"
               ELSE resource \o " not found",
   resource |-> resource,
   id |-> id]

\* mutant: the cause is dropped
errors_infrastructure_noCause(message, cause) ==
  [kind |-> "infrastructure", message |-> message, cause |-> Undefined]

errors_infrastructure(message, cause) ==
  [kind |-> "infrastructure", message |-> message, cause |-> cause]

errors_weatherAPI(message, statusCode) ==
  [kind |-> "weather-api", message |-> message, statusCode |-> statusCode]

----------------------------------------------------------------------------
(* The weather pipelines: inputs and collaborator responses *)

Places == {"Tokyo", "Osaka", "Sapporo", "Atlantis"}

Candidates ==
  { [t |-> "object", latitude |-> 3568, longitude |-> 13969, name |-> "Tokyo"],
    [t |-> "object", latitude |-> 3469, longitude |-> 13550, name |-> "Osaka-shi"] }

SeqsUpTo(S, n) == UNION { [1..k -> S] : k \in 0..n }

\* the parsed bodies of a geocoding response: null, an object without results,
\* an object with zero or more candidates
GeocodingBodies ==
  {Null, [t |-> "object", hasResults |-> FALSE, results |-> <<>>]}
    \cup { [t |-> "object", hasResults |-> TRUE, results |-> cs] :
             cs \in SeqsUpTo(Candidates, MaxCandidates) }

Settlements(bodies) ==
  { Fulfilled(b) : b \in bodies } \cup { Rejected(x) : x \in Reasons }

\* weather codes: in both tables (0, 1), in the tool's table only (56), in neither (999)
Codes == {0, 1, 56, 999}

\* the codes a decoder is called with on its own: every code up to MaxCode, a
\* negative one and the codes above
DecodeCodes == (-1 .. MaxCode) \cup Codes

CurrentSamples ==
  { [temperature_2m |-> 22, apparent_temperature |-> 21, relative_humidity_2m |-> 60,
     wind_speed_10m |-> 12, wind_gusts_10m |-> 30],
    [temperature_2m |-> -5, apparent_temperature |-> -11, relative_humidity_2m |-> 85,
     wind_speed_10m |-> 40, wind_gusts_10m |-> 75] }

NoCurrent ==
  [temperature_2m |-> 0, apparent_temperature |-> 0, relative_humidity_2m |-> 0,
   wind_speed_10m |-> 0, wind_gusts_10m |-> 0, weather_code |-> 0]

\* the parsed bodies of the forecast response to the tool's request: null, an
\* object without current (the API's {error: true, reason}), a full response
ToolWeatherBodies ==
  {Null, [t |-> "object", hasCurrent |-> FALSE, current |-> NoCurrent]}
    \cup { [t |-> "object", hasCurrent |-> TRUE,
            current |-> [temperature_2m |-> s.temperature_2m,
                         apparent_temperature |-> s.apparent_temperature,
                         relative_humidity_2m |-> s.relative_humidity_2m,
                         wind_speed_10m |-> s.wind_speed_10m,
                         wind_gusts_10m |-> s.wind_gusts_10m,
                         weather_code |-> c]] :
             s \in CurrentSamples, c \in Codes }

HourlyTemperatures == {-5, 22}
HourlyProbabilities == {0, 60}

\* the parsed bodies of the forecast response to the workflow's request
WorkflowWeatherBodies ==
  {Null}
    \cup { [t |-> "object", hasCurrent |-> hc, current |-> [weathercode |-> c],
            hasHourly |-> hh,
            hourly |-> [precipitation_probability |-> ps, temperature_2m |-> ts]] :
             hc \in BOOLEAN, hh \in BOOLEAN, c \in Codes,
             ps \in SeqsUpTo(HourlyProbabilities, MaxHourly),
             ts \in SeqsUpTo(HourlyTemperatures, MaxHourly) }

\* new Date().toISOString() at the time of the call
Clock == {"2025-06-01T09:00:00.000Z"}

----------------------------------------------------------------------------
(* tools/index.ts: getWeather *)

\* the table of getWeatherCondition
tools_conditions ==
  0 :> "Clear sky" @@ 1 :> "Mainly clear" @@ 2 :> "Partly cloudy"
  @@ 3 :> "Overcast" @@ 45 :> "Foggy" @@ 48 :> "Depositing rime fog"
  @@ 51 :> "Light drizzle" @@ 53 :> "Moderate drizzle" @@ 55 :> "Dense drizzle"
  @@ 56 :> "Light freezing drizzle" @@ 57 :> "Dense freezing drizzle"
  @@ 61 :> "Slight rain" @@ 63 :> "Moderate rain" @@ 65 :> "Heavy rain"
  @@ 66 :> "Light freezing rain" @@ 67 :> "Heavy freezing rain"
  @@ 71 :> "Slight snow fall" @@ 73 :> "Moderate snow fall"
  @@ 75 :> "Heavy snow fall" @@ 77 :> "Snow grains"
  @@ 80 :> "Slight rain showers" @@ 81 :> "Moderate rain showers"
  @@ 82 :> "Violent rain showers" @@ 85 :> "Slight snow showers"
  @@ 86 :> "Heavy snow showers" @@ 95 :> "Thunderstorm"
  @@ 96 :> "Thunderstorm with slight hail" @@ 99 :> "Thunderstorm with heavy hail"

\* mutant: no "Unknown" for a code the table lacks
tools_getWeatherCondition_noFallback(code) ==
  IF code \in DOMAIN tools_conditions THEN tools_conditions[code] ELSE "undefined"

\* conditions[code] || "Unknown"
tools_getWeatherCondition(code) ==
  IF code \in DOMAIN tools_conditions /\ tools_conditions[code] # ""
  THEN tools_conditions[code] ELSE "Unknown"

\* the fetch of the geocoding URL built from the place name
GeocodingRequest(name) == [api |-> "geocoding", name |-> name]

\* the fetch of the forecast URL built from the coordinates
ForecastRequest(latitude, longitude) ==
  [api |-> "forecast", latitude |-> latitude, longitude |-> longitude]

NoRequest == [api |-> "none"]

\* (error) => errors.infrastructure("Failed to fetch geocoding data", error)
geocodingMapError ==
  [x \in Reasons |-> errors_infrastructure("Failed to fetch geocoding data", x)]

\* mutant: a forecast failure reported as a missing resource
weatherMapError_notFound ==
  [x \in Reasons |-> errors_notFound("weather", Undefined)]

\* (error) => errors.infrastructure("Failed to fetch weather data", error)
weatherMapError ==
  [x \in Reasons |-> errors_infrastructure("Failed to fetch weather data", x)]

\* geocodingData.results?.[0]
results0(geocodingData) ==
  IF geocodingData.t = "null" THEN Throw(TypeError)
  ELSE IF ~geocodingData.hasResults THEN Return(Undefined)
  ELSE IF Len(geocodingData.results) = 0 THEN Return(Undefined)
  ELSE Return(geocodingData.results[1])

\* getWeather from the settling of the geocoding promise to its next await or
\* its completion
getWeather_geocoded(loc, promise) ==
  LET result == fromPromise(promise, geocodingMapError) IN
  IF isErr(result)
  THEN [geocodingResult |-> result, next |-> "return",
        completion |-> Return(err(unwrapErr(result).v)), request |-> NoRequest]
  ELSE LET geocodingData == unwrap(result).v
           first == results0(geocodingData) IN
       IF first.threw
       THEN [geocodingResult |-> result, next |-> "throw",
             completion |-> Throw(first.v), request |-> NoRequest]
       ELSE IF ~Truthy(first.v)
       THEN [geocodingResult |-> result, next |-> "return",
             completion |-> Return(err(errors_notFound("location", Str(loc)))),
             request |-> NoRequest]
       ELSE [geocodingResult |-> result, next |-> "fetch",
             completion |-> Pending,
             request |-> ForecastRequest(first.v.latitude, first.v.longitude)]

\* mutant: the two temperatures in each other's slot, the humidity as a fraction
getWeather_weather_misplaced(name, promise) ==
  LET result == fromPromise(promise, weatherMapError) IN
  IF isErr(result)
  THEN [weatherResult |-> result, completion |-> Return(err(unwrapErr(result).v)),
        decoded |-> <<>>]
  ELSE LET data == unwrap(result).v IN
       IF data.t = "null" \/ ~data.hasCurrent
       THEN [weatherResult |-> result, completion |-> Throw(TypeError),
             decoded |-> <<>>]
       ELSE [weatherResult |-> result,
             decoded |-> <<[decoder |-> "tools", code |-> data.current.weather_code,
                            text |-> tools_getWeatherCondition(data.current.weather_code)]>>,
             completion |-> Return(ok(
               [temperature |-> data.current.apparent_temperature,
                feelsLike |-> data.current.temperature_2m,
                humidity |-> data.current.relative_humidity_2m \div 100,
                windSpeed |-> data.current.wind_speed_10m,
                windGust |-> data.current.wind_gusts_10m,
                conditions |-> tools_getWeatherCondition(data.current.weather_code),
                location |-> name]))]

\* getWeather from the settling of the forecast promise to its completion; name
\* is the display name destructured from the first candidate
getWeather_weather(name, promise) ==
  LET result == fromPromise(promise, weatherMapError) IN
  IF isErr(result)
  THEN [weatherResult |-> result, completion |-> Return(err(unwrapErr(result).v)),
        decoded |-> <<>>]
  ELSE LET data == unwrap(result).v IN
       IF data.t = "null" \/ ~data.hasCurrent
       THEN [weatherResult |-> result, completion |-> Throw(TypeError),
             decoded |-> <<>>]
       ELSE [weatherResult |-> result,
             decoded |-> <<[decoder |-> "tools", code |-> data.current.weather_code,
                            text |-> tools_getWeatherCondition(data.current.weather_code)]>>,
             completion |-> Return(ok(
               [temperature |-> data.current.temperature_2m,
                feelsLike |-> data.current.apparent_temperature,
                humidity |-> data.current.relative_humidity_2m,
                windSpeed |-> data.current.wind_speed_10m,
                windGust |-> data.current.wind_gusts_10m,
                conditions |-> tools_getWeatherCondition(data.current.weather_code),
                location |-> name]))]

----------------------------------------------------------------------------
(* workflows/index.ts: fetchWeatherData *)

\* the table of getWeatherCondition
workflows_conditions ==
  0 :> "Clear sky" @@ 1 :> "Mainly clear" @@ 2 :> "Partly cloudy"
  @@ 3 :> "Overcast" @@ 45 :> "Foggy" @@ 48 :> "Depositing rime fog"
  @@ 51 :> "Light drizzle" @@ 53 :> "Moderate drizzle" @@ 55 :> "Dense drizzle"
  @@ 61 :> "Slight rain" @@ 63 :> "Moderate rain" @@ 65 :> "Heavy rain"
  @@ 71 :> "Slight snow fall" @@ 73 :> "Moderate snow fall"
  @@ 75 :> "Heavy snow fall" @@ 95 :> "Thunderstorm"

\* conditions[code] || "Unknown"
workflows_getWeatherCondition(code) ==
  IF code \in DOMAIN workflows_conditions /\ workflows_conditions[code] # ""
  THEN workflows_conditions[code] ELSE "Unknown"

\* a JavaScript number that may be infinite: inf is -1, 0 or 1
Fin(n) == [inf |-> 0, n |-> n]
PosInfinity == [inf |-> 1, n |-> 0]
NegInfinity == [inf |-> -1, n |-> 0]

\* Math.max(...xs): -Infinity for no arguments
MathMax(xs) ==
  IF Len(xs) = 0 THEN NegInfinity
  ELSE Fin(CHOOSE m \in {xs[i] : i \in 1..Len(xs)} :
             \A i \in 1..Len(xs) : xs[i] <= m)

\* Math.min(...xs): Infinity for no arguments
MathMin(xs) ==
  IF Len(xs) = 0 THEN PosInfinity
  ELSE Fin(CHOOSE m \in {xs[i] : i \in 1..Len(xs)} :
             \A i \in 1..Len(xs) : m <= xs[i])

\* xs.reduce((acc, curr) => Math.max(acc, curr), acc)
RECURSIVE reduceMax(_, _)
reduceMax(xs, acc) ==
  IF Len(xs) = 0 THEN acc
  ELSE reduceMax(Tail(xs), IF Head(xs) > acc THEN Head(xs) ELSE acc)

\* mutant: no return on a geocoding Err, the forecast is fetched for default
\* coordinates
fetchWeatherData_geocoded_noShortCircuit(city, promise) ==
  LET result == fromPromise(promise, geocodingMapError) IN
  IF isErr(result)
  THEN [geocodingResult |-> result, next |-> "fetch",
        completion |-> Pending, request |-> ForecastRequest(0, 0)]
  ELSE LET geocodingData == unwrap(result).v
           first == results0(geocodingData) IN
       IF first.threw
       THEN [geocodingResult |-> result, next |-> "throw",
             completion |-> Throw(first.v), request |-> NoRequest]
       ELSE IF ~Truthy(first.v)
       THEN [geocodingResult |-> result, next |-> "return",
             completion |-> Return(err(errors_notFound("location", Str(city)))),
             request |-> NoRequest]
       ELSE [geocodingResult |-> result, next |-> "fetch",
             completion |-> Pending,
             request |-> ForecastRequest(first.v.latitude, first.v.longitude)]

\* mutant: a failed geocoding lookup is attempted a second time
fetchWeatherData_geocoded_retry(city, promise) ==
  LET result == fromPromise(promise, geocodingMapError) IN
  IF isErr(result)
  THEN [geocodingResult |-> result, next |-> "fetch",
        completion |-> Pending, request |-> GeocodingRequest(city)]
  ELSE LET geocodingData == unwrap(result).v
           first == results0(geocodingData) IN
       IF first.threw
       THEN [geocodingResult |-> result, next |-> "throw",
             completion |-> Throw(first.v), request |-> NoRequest]
       ELSE IF ~Truthy(first.v)
       THEN [geocodingResult |-> result, next |-> "return",
             completion |-> Return(err(errors_notFound("location", Str(city)))),
             request |-> NoRequest]
       ELSE [geocodingResult |-> result, next |-> "fetch",
             completion |-> Pending,
             request |-> ForecastRequest(first.v.latitude, first.v.longitude)]

\* fetchWeatherData from the settling of the geocoding promise to its next await
\* or its completion
fetchWeatherData_geocoded(city, promise) ==
  LET result == fromPromise(promise, geocodingMapError) IN
  IF isErr(result)
  THEN [geocodingResult |-> result, next |-> "return",
        completion |-> Return(err(unwrapErr(result).v)), request |-> NoRequest]
  ELSE LET geocodingData == unwrap(result).v
           first == results0(geocodingData) IN
       IF first.threw
       THEN [geocodingResult |-> result, next |-> "throw",
             completion |-> Throw(first.v), request |-> NoRequest]
       ELSE IF ~Truthy(first.v)
       THEN [geocodingResult |-> result, next |-> "return",
             completion |-> Return(err(errors_notFound("location", Str(city)))),
             request |-> NoRequest]
       ELSE [geocodingResult |-> result, next |-> "fetch",
             completion |-> Pending,
             request |-> ForecastRequest(first.v.latitude, first.v.longitude)]

\* fetchWeatherData from the settling of the forecast promise to its completion;
\* now is new Date().toISOString()
fetchWeatherData_weather(city, promise, now) ==
  LET result == fromPromise(promise, weatherMapError) IN
  IF isErr(result)
  THEN [weatherResult |-> result, completion |-> Return(err(unwrapErr(result).v)),
        decoded |-> <<>>]
  ELSE LET data == unwrap(result).v IN
       IF data.t = "null" \/ ~data.hasHourly \/ ~data.hasCurrent
       THEN [weatherResult |-> result, completion |-> Throw(TypeError),
             decoded |-> <<>>]
       ELSE [weatherResult |-> result,
             decoded |-> <<[decoder |-> "workflows", code |-> data.current.weathercode,
                            text |-> workflows_getWeatherCondition(data.current.weathercode)]>>,
             completion |-> Return(ok(
               [date |-> now,
                maxTemp |-> MathMax(data.hourly.temperature_2m),
                minTemp |-> MathMin(data.hourly.temperature_2m),
                condition |-> workflows_getWeatherCondition(data.current.weathercode),
                precipitationChance |->
                  reduceMax(data.hourly.precipitation_probability, 0),
                location |-> city]))]

----------------------------------------------------------------------------
(* One invocation of a weather pipeline, step by step.  A step runs from one   *)
(* await to the next: the function suspends at each fetch and resumes when the *)
(* promise settles.                                                            *)

\* getWeather(loc) is called: it builds the geocoding URL, starts the fetch and
\* awaits it
getWeatherCall(loc) ==
  /\ pc = "idle"
  /\ pc' = "awaitGeocoding"
  /\ fn' = "getWeather"
  /\ location' = loc
  /\ calls' = <<GeocodingRequest(loc)>>
  /\ trace' = <<"geocoding:start">>
  /\ UNCHANGED <<geocodingResult, weatherResult, settled, outcome, decoded>>

\* fetchWeatherData(city) is called
fetchWeatherDataCall(city) ==
  /\ pc = "idle"
  /\ pc' = "awaitGeocoding"
  /\ fn' = "fetchWeatherData"
  /\ location' = city
  /\ calls' = <<GeocodingRequest(city)>>
  /\ trace' = <<"geocoding:start">>
  /\ UNCHANGED <<geocodingResult, weatherResult, settled, outcome, decoded>>

\* what a step does with the record computed for it
Resume(step) ==
  /\ geocodingResult' = step.geocodingResult
  /\ outcome' = step.completion
  /\ IF step.next = "fetch"
     THEN /\ pc' = "awaitWeather"
          /\ calls' = Append(calls, step.request)
          /\ trace' = trace \o <<"geocoding:settled", "forecast:start">>
     ELSE /\ pc' = IF step.next = "throw" THEN "threw" ELSE "returned"
          /\ calls' = calls
          /\ trace' = Append(trace, "geocoding:settled")
  /\ UNCHANGED <<fn, location, weatherResult, decoded>>

Complete(step) ==
  /\ weatherResult' = step.weatherResult
  /\ outcome' = step.completion
  /\ decoded' = step.decoded
  /\ pc' = IF step.completion.threw THEN "threw" ELSE "returned"
  /\ trace' = trace \o (IF isOk(step.weatherResult)
                        THEN <<"forecast:settled", "transform">>
                        ELSE <<"forecast:settled">>)
  /\ UNCHANGED <<fn, location, geocodingResult, calls>>

\* the geocoding promise settles and getWeather resumes
getWeatherGeocodingSettles(promise) ==
  /\ pc = "awaitGeocoding"
  /\ fn = "getWeather"
  /\ settled' = Append(settled, promise)
  /\ Resume(getWeather_geocoded(location, promise))

\* the forecast promise settles and getWeather resumes
getWeatherWeatherSettles(promise) ==
  /\ pc = "awaitWeather"
  /\ fn = "getWeather"
  /\ settled' = Append(settled, promise)
  /\ Complete(getWeather_weather(
         results0(unwrap(geocodingResult).v).v.name, promise))

fetchWeatherDataGeocodingSettles(promise) ==
  /\ pc = "awaitGeocoding"
  /\ fn = "fetchWeatherData"
  /\ settled' = Append(settled, promise)
  /\ Resume(fetchWeatherData_geocoded(location, promise))

fetchWeatherDataWeatherSettles(promise, now) ==
  /\ pc = "awaitWeather"
  /\ fn = "fetchWeatherData"
  /\ settled' = Append(settled, promise)
  /\ Complete(fetchWeatherData_weather(location, promise, now))

\* getWeatherCondition of the tool called on its own with a code
tools_getWeatherConditionCall(code) ==
  /\ pc = "idle"
  /\ pc' = "decoded"
  /\ fn' = "getWeatherCondition"
  /\ decoded' = <<[decoder |-> "tools", code |-> code,
                   text |-> tools_getWeatherCondition(code)]>>
  /\ UNCHANGED <<location, geocodingResult, weatherResult, calls, settled, trace,
                 outcome>>

\* getWeatherCondition of the workflow called on its own with a code
workflows_getWeatherConditionCall(code) ==
  /\ pc = "idle"
  /\ pc' = "decoded"
  /\ fn' = "getWeatherCondition"
  /\ decoded' = <<[decoder |-> "workflows", code |-> code,
                   text |-> workflows_getWeatherCondition(code)]>>
  /\ UNCHANGED <<location, geocodingResult, weatherResult, calls, settled, trace,
                 outcome>>

----------------------------------------------------------------------------
(* Idle values of the five parts *)

PipeIdle ==
  /\ pc = "idle" /\ fn = "none" /\ location = ""
  /\ geocodingResult = Pending /\ weatherResult = Pending
  /\ calls = <<>> /\ settled = <<>> /\ trace = <<>> /\ outcome = Pending
  /\ decoded = <<>>

HttpIdle ==
  /\ hpc = "idle" /\ route = "none" /\ request = Pending /\ generated = Pending
  /\ validationResult = Pending /\ dataResult = Pending
  /\ agentCalls = <<>> /\ responses = <<>>

ChatIdle ==
  /\ cpc = "idle" /\ event = Pending /\ cityResult = Pending
  /\ chatCalls = <<>> /\ chatGenerated = Pending /\ chatWeatherResult = Pending
  /\ replies = <<>> /\ handled = Pending

\* the invocations in flight together, and the frame of one not yet called
Invocations == {1, 2}

IdleFrame ==
  [fn |-> "none", pc |-> "idle", arg |-> "", name |-> "", calls |-> <<>>,
   settled |-> <<>>, outcome |-> Pending]

PairIdle == inv = [i \in Invocations |-> IdleFrame]

\* no delivery yet
HookIdle ==
  hook = [server |-> "none", pc |-> "idle", events |-> <<>>, handlers |-> <<>>,
          responses |-> <<>>]

AlgIdle ==
  /\ a0 = Pending /\ r0 = Pending /\ r = Pending
  /\ ops = <<>> /\ spy = <<>> /\ last = Pending

----------------------------------------------------------------------------
(* Spec: one invocation of getWeather or of fetchWeatherData against every *)
(* outcome of the two lookups, or one call of a weather-code decoder       *)

Init == PipeIdle /\ HttpIdle /\ AlgIdle /\ ChatIdle /\ PairIdle /\ HookIdle

Next ==
  \/ \E loc \in Places : getWeatherCall(loc) /\ UNCHANGED <<httpVars, algVars, chatVars, inv, hook>>
  \/ \E city \in Places : fetchWeatherDataCall(city) /\ UNCHANGED <<httpVars, algVars, chatVars, inv, hook>>
  \/ \E p \in Settlements(GeocodingBodies) :
        getWeatherGeocodingSettles(p) /\ UNCHANGED <<httpVars, algVars, chatVars, inv, hook>>
  \/ \E p \in Settlements(ToolWeatherBodies) :
        getWeatherWeatherSettles(p) /\ UNCHANGED <<httpVars, algVars, chatVars, inv, hook>>
  \/ \E p \in Settlements(GeocodingBodies) :
        fetchWeatherDataGeocodingSettles(p) /\ UNCHANGED <<httpVars, algVars, chatVars, inv, hook>>
  \/ \E p \in Settlements(WorkflowWeatherBodies), now \in Clock :
        fetchWeatherDataWeatherSettles(p, now) /\ UNCHANGED <<httpVars, algVars, chatVars, inv, hook>>
  \/ \E code \in DecodeCodes :
        tools_getWeatherConditionCall(code) /\ UNCHANGED <<httpVars, algVars, chatVars, inv, hook>>
  \/ \E code \in DecodeCodes :
        workflows_getWeatherConditionCall(code) /\ UNCHANGED <<httpVars, algVars, chatVars, inv, hook>>

Spec == Init /\ [][Next]_vars

----------------------------------------------------------------------------
(* server.ts: the HTTP entry points and getWeatherData *)

\* typeof x
typeOf(x) == IF x.t = "null" THEN "object" ELSE x.t

\* the values a request can carry as its city: absent, empty, a place name, a
\* number, an array (a repeated query parameter)
CityInputs ==
  {Undefined, Str(""), Num(5), Obj} \cup { Str(p) : p \in Places }

\* req.query: always an object
Queries == { [t |-> "object", city |-> c] : c \in CityInputs }

\* req.body after express.json(): undefined when no JSON body was parsed,
\* otherwise an object
Bodies == {Undefined} \cup { [t |-> "object", city |-> c] : c \in CityInputs }

validateWeatherRequest(query) ==
  IF ~Truthy(query.city) \/ typeOf(query.city) # "string"
  THEN err(errors_validation("City parameter is required", Str("city")))
  ELSE ok([city |-> query.city.v])

\* mutant: the city is only checked to be a string, so an empty one passes
validateSuggestRequest_typeOnly(body) ==
  IF ~Truthy(body) \/ typeOf(body) # "object"
  THEN err(errors_validation("Request body is required", Undefined))
  ELSE IF typeOf(body.city) # "string"
  THEN err(errors_validation("City is required", Str("city")))
  ELSE ok([city |-> body.city.v])

validateSuggestRequest(body) ==
  IF ~Truthy(body) \/ typeOf(body) # "object"
  THEN err(errors_validation("Request body is required", Undefined))
  ELSE IF ~Truthy(body.city) \/ typeOf(body.city) # "string"
  THEN err(errors_validation("City is required", Str("city")))
  ELSE ok([city |-> body.city.v])

\* what mastra.getAgent("weatherAgent") does: returns the agent, returns
\* undefined, or throws
GetAgentOutcomes == {Return(Obj), Return(Undefined), Throw(TypeError)}

\* the text of an agent response
AgentTexts ==
  {Undefined, Str(""), Str("Sunny, 22C: walk in the park"), Str("Rain: visit a museum")}

\* what agent.generate resolves to
AgentResponses == {Undefined, Null} \cup { [t |-> "object", text |-> x] : x \in AgentTexts }

GetAgentCall == [call |-> "getAgent", arg |-> "weatherAgent"]

GenerateCall(city) ==
  [call |-> "generate",
   arg |-> "Get the current weather for " \o city
           \o " and suggest appropriate activities based on the weather conditions."]

\* getWeatherData from its call to the await of agent.generate, or to its
\* completion when it does not get that far
getWeatherData_start(city, got) ==
  IF got.threw
  THEN [calls |-> <<GetAgentCall>>, awaits |-> FALSE,
        result |-> err(errors_infrastructure("Failed to get weather data", got.v))]
  ELSE IF ~Truthy(got.v)
  THEN [calls |-> <<GetAgentCall>>, awaits |-> FALSE,
        result |-> err(errors_infrastructure("Weather agent not found", Undefined))]
  ELSE [calls |-> <<GetAgentCall, GenerateCall(city)>>, awaits |-> TRUE,
        result |-> Pending]

\* getWeatherData from the settling of agent.generate to its completion
getWeatherData_generated(promise) ==
  IF promise.settled = "rejected"
  THEN err(errors_infrastructure("Failed to get weather data", promise.reason))
  ELSE LET response == promise.value IN
       IF ~Truthy(response) \/ ~Truthy(response.text)
       THEN err(errors_weatherAPI("No weather data received from agent", Num(500)))
       ELSE ok([activities |-> response.text])

Routes == {"GET /api/weather", "POST /api/weather/suggest"}

\* res.status(400).json({error, field}) for a validation Err
validationResponse(result) ==
  LET error == unwrapErr(result).v IN
  [status |-> 400,
   body |-> [error |-> error.message,
             field |-> IF error.kind = "validation" THEN error.field ELSE Undefined]]

\* the status chosen for an Err of getWeatherData
errorStatus(error) ==
  IF error.kind = "weather-api" /\ Truthy(error.statusCode)
  THEN error.statusCode.n
  ELSE 500

\* the response of either handler to the Result of getWeatherData; res.json
\* without res.status answers 200
weatherResponse(rt, result, now) ==
  IF isErr(result)
  THEN LET error == unwrapErr(result).v IN
       [status |-> errorStatus(error),
        body |-> [error |-> error.message, type |-> error.kind]]
  ELSE IF rt = "GET /api/weather"
  THEN [status |-> 200, body |-> unwrap(result).v]
  ELSE [status |-> 200,
        body |-> [activities |-> unwrap(result).v.activities, timestamp |-> now]]

\* a handler from the arrival of the request to its first await or its response
Handle(rt, input, validation, got, now) ==
  /\ hpc = "idle"
  /\ route' = rt
  /\ request' = input
  /\ generated' = generated
  /\ validationResult' = validation
  /\ IF isErr(validation)
     THEN /\ responses' = <<validationResponse(validation)>>
          /\ hpc' = "responded"
          /\ UNCHANGED <<agentCalls, dataResult>>
     ELSE LET started == getWeatherData_start(unwrap(validation).v.city, got) IN
          /\ agentCalls' = started.calls
          /\ dataResult' = started.result
          /\ IF started.awaits
             THEN hpc' = "awaitAgent" /\ UNCHANGED responses
             ELSE /\ hpc' = "responded"
                  /\ responses' = <<weatherResponse(rt, started.result, now)>>

\* app.get("/api/weather")
GetWeather(query, got, now) ==
  Handle("GET /api/weather", query, validateWeatherRequest(query), got, now)

\* app.post("/api/weather/suggest")
PostSuggest(body, got, now) ==
  Handle("POST /api/weather/suggest", body, validateSuggestRequest(body), got, now)

\* mutant: getWeatherData without its catch: a rejection of agent.generate
\* rejects getWeatherData and the handler ends before any response
GenerateSettles_uncaught(promise, now) ==
  /\ hpc = "awaitAgent"
  /\ generated' = promise
  /\ hpc' = "responded"
  /\ IF promise.settled = "rejected"
     THEN UNCHANGED <<dataResult, responses>>
     ELSE /\ dataResult' = getWeatherData_generated(promise)
          /\ responses' = Append(responses, weatherResponse(route, dataResult', now))
  /\ UNCHANGED <<route, request, validationResult, agentCalls>>

\* agent.generate settles: getWeatherData completes and the handler responds
GenerateSettles(promise, now) ==
  /\ hpc = "awaitAgent"
  /\ generated' = promise
  /\ dataResult' = getWeatherData_generated(promise)
  /\ responses' = Append(responses, weatherResponse(route, dataResult', now))
  /\ hpc' = "responded"
  /\ UNCHANGED <<route, request, validationResult, agentCalls>>

(* SpecHttp: one request to either endpoint against every input and every *)
(* behaviour of the agent                                                  *)

NextHttp ==
  \/ \E q \in Queries, got \in GetAgentOutcomes, now \in Clock :
        GetWeather(q, got, now) /\ UNCHANGED <<pipeVars, algVars, chatVars, inv, hook>>
  \/ \E b \in Bodies, got \in GetAgentOutcomes, now \in Clock :
        PostSuggest(b, got, now) /\ UNCHANGED <<pipeVars, algVars, chatVars, inv, hook>>
  \/ \E p \in Settlements(AgentResponses), now \in Clock :
        GenerateSettles(p, now) /\ UNCHANGED <<pipeVars, algVars, chatVars, inv, hook>>

SpecHttp == Init /\ [][NextHttp]_vars

(* SpecAdapter: the adapter layer alone.  The handlers run with getWeatherData *)
(* replaced by a stub that returns a given Result of its declared type,       *)
(* Result<any, AppError>, so that the response is a function of the terminal  *)
(* Result.                                                                    *)

StatusCodes == {Undefined, Num(429), Num(500), Num(503)}

StubResults ==
  { ok([activities |-> x]) : x \in {y \in AgentTexts : Truthy(y)} }
    \cup { err(errors_notFound("location", Str(p))) : p \in Places }
    \cup { err(errors_infrastructure("Failed to get weather data", x)) : x \in Reasons }
    \cup { err(errors_infrastructure("Weather agent not found", Undefined)) }
    \cup { err(errors_weatherAPI("No weather data received from agent", c)) :
             c \in StatusCodes }

\* a handler whose getWeatherData is the stub returning stubbed
HandleStubbed(rt, input, validation, stubbed, now) ==
  /\ hpc = "idle"
  /\ hpc' = "responded"
  /\ route' = rt
  /\ request' = input
  /\ validationResult' = validation
  /\ IF isErr(validation)
     THEN /\ responses' = <<validationResponse(validation)>>
          /\ UNCHANGED dataResult
     ELSE /\ dataResult' = stubbed
          /\ responses' = <<weatherResponse(rt, stubbed, now)>>
  /\ UNCHANGED <<agentCalls, generated>>

NextAdapter ==
  \/ \E q \in Queries, x \in StubResults, now \in Clock :
        /\ HandleStubbed("GET /api/weather", q, validateWeatherRequest(q), x, now)
        /\ UNCHANGED <<pipeVars, algVars, chatVars, inv, hook>>
  \/ \E b \in Bodies, x \in StubResults, now \in Clock :
        /\ HandleStubbed("POST /api/weather/suggest", b, validateSuggestRequest(b), x, now)
        /\ UNCHANGED <<pipeVars, algVars, chatVars, inv, hook>>

SpecAdapter == Init /\ [][NextAdapter]_vars

----------------------------------------------------------------------------
(* server.ts: the LINE chat adapter.  A text is a sequence of characters; a    *)
(* character is a one-letter string, or the code point of a Japanese           *)
(* character: U+5929 U+6C17 is the word for weather (tenki), U+6C17 U+6E29     *)
(* the word for temperature (kion), U+306E the particle no, U+6771 U+4EAC      *)
(* the name of Tokyo in Japanese.                                              *)

SetMin(S) == CHOOSE x \in S : \A y \in S : x <= y
SetMax(S) == CHOOSE x \in S : \A y \in S : x >= y

RECURSIVE Flatten(_)
Flatten(ss) == IF ss = <<>> THEN <<>> ELSE Head(ss) \o Flatten(Tail(ss))

\* the string a sequence of characters stands for
RECURSIVE Join(_)
Join(cs) == IF cs = <<>> THEN "" ELSE Head(cs) \o Join(Tail(cs))

\* the pieces messages are made of
Words ==
  { <<"w", "e", "a", "t", "h", "e", "r">>,
    <<"W", "E", "A", "T", "H", "E", "R">>,
    <<"W", "e", "a", "t", "h", "e", "r", " ", "i", "n", " ">>,
    <<"f", "o", "r", "e", "c", "a", "s", "t", " ", "f", "o", "r", " ">>,
    <<"t", "e", "m", "p", "e", "r", "a", "t", "u", "r", "e", " ", "i", "n", " ">>,
    <<"T", "o", "k", "y", "o">>,
    <<" ", "T", "o", "k", "y", "o">>,
    <<"h", "i">>,
    <<" ">>,
    <<"U+6771", "U+4EAC">>,
    <<"U+5929", "U+6C17">>,
    <<"U+306E", "U+5929", "U+6C17">>,
    <<"U+306E", "U+6C17", "U+6E29">> }

\* event.message.text: up to MaxWords pieces in a row
Texts == { Flatten(ws) : ws \in SeqsUpTo(Words, MaxWords) }

\* String.prototype.toLowerCase, on the letters of Words
toLowerCase(text) ==
  LET lower == "W" :> "w" @@ "E" :> "e" @@ "A" :> "a" @@ "T" :> "t"
               @@ "H" :> "h" @@ "R" :> "r"
  IN [i \in 1..Len(text) |->
        IF text[i] \in DOMAIN lower THEN lower[text[i]] ELSE text[i]]

\* String.prototype.trim
trim(text) ==
  LET inked == { i \in 1..Len(text) : text[i] # " " }
  IN IF inked = {} THEN <<>> ELSE SubSeq(text, SetMin(inked), SetMax(inked))

\* word occurs in text at position k
startsAt(text, word, k) ==
  /\ k + Len(word) - 1 <= Len(text)
  /\ SubSeq(text, k, k + Len(word) - 1) = word

\* String.prototype.includes
includes(text, word) == \E k \in 1..Len(text) : startsAt(text, word, k)

weatherKeywords ==
  << <<"U+5929", "U+6C17">>,
     <<"w", "e", "a", "t", "h", "e", "r">>,
     <<"f", "o", "r", "e", "c", "a", "s", "t">>,
     <<"U+6C17", "U+6E29">>,
     <<"t", "e", "m", "p", "e", "r", "a", "t", "u", "r", "e">> >>

\* the five regular expressions: a literal with one group, (.+?) or (.+) before
\* it or (.+) after it, the latter three with the flag i
patterns ==
  << [group |-> "before", lazy |-> TRUE, i |-> FALSE,
      literal |-> <<"U+306E", "U+5929", "U+6C17">>],
     [group |-> "after", lazy |-> FALSE, i |-> TRUE,
      literal |-> <<"w", "e", "a", "t", "h", "e", "r", " ", "i", "n", " ">>],
     [group |-> "after", lazy |-> FALSE, i |-> TRUE,
      literal |-> <<"f", "o", "r", "e", "c", "a", "s", "t", " ", "f", "o", "r", " ">>],
     [group |-> "before", lazy |-> FALSE, i |-> FALSE,
      literal |-> <<"U+306E", "U+6C17", "U+6E29">>],
     [group |-> "after", lazy |-> FALSE, i |-> TRUE,
      literal |-> <<"t", "e", "m", "p", "e", "r", "a", "t", "u", "r", "e",
                    " ", "i", "n", " ">>] >>

\* text.match(pattern): whether the pattern matches and what match[1] is.  The
\* leftmost match is taken.  With the group in front it starts at the first
\* character, the group reaching to the first occurrence of the literal that
\* leaves it a character when lazy and to the last one when greedy; with the
\* group behind, the match starts at the first occurrence of the literal that
\* is followed by a character, and the group is the rest of the text.
match(text, pattern) ==
  LET subject == IF pattern.i THEN toLowerCase(text) ELSE text
      first == IF pattern.group = "before" THEN 2 ELSE 1
      last1 == IF pattern.group = "before" THEN Len(text)
               ELSE Len(text) - Len(pattern.literal)
      at == { k \in first..last1 : startsAt(subject, pattern.literal, k) }
  IN IF at = {} THEN [found |-> FALSE, group |-> <<>>]
     ELSE IF pattern.group = "before"
     THEN [found |-> TRUE,
           group |-> SubSeq(text, 1,
                            (IF pattern.lazy THEN SetMin(at) ELSE SetMax(at)) - 1)]
     ELSE [found |-> TRUE,
           group |-> SubSeq(text, SetMin(at) + Len(pattern.literal), Len(text))]

\* mutant: match[1] is handed on as it was matched
parseMessageForCity_untrimmed(text) ==
  LET normalizedText == trim(toLowerCase(text))
      hasWeatherKeyword ==
        \E n \in 1..Len(weatherKeywords) : includes(normalizedText, weatherKeywords[n])
      hits == { n \in 1..Len(patterns) :
                  match(text, patterns[n]).found /\ match(text, patterns[n]).group # <<>> }
  IN IF ~hasWeatherKeyword
     THEN err(errors_validation(
                "Please include a weather-related keyword in your message", Undefined))
     ELSE IF hits # {}
     THEN ok(match(text, patterns[SetMin(hits)]).group)
     ELSE IF normalizedText = <<"U+5929", "U+6C17">>
               \/ normalizedText = <<"w", "e", "a", "t", "h", "e", "r">>
     THEN ok(<<"T", "o", "k", "y", "o">>)
     ELSE err(errors_validation(
                "Could not understand the city name. Try 'U+6771U+4EACU+306EU+5929U+6C17' or 'weather in Tokyo'",
                Undefined))

parseMessageForCity(text) ==
  LET normalizedText == trim(toLowerCase(text))
      hasWeatherKeyword ==
        \E n \in 1..Len(weatherKeywords) : includes(normalizedText, weatherKeywords[n])
      hits == { n \in 1..Len(patterns) :
                  match(text, patterns[n]).found /\ match(text, patterns[n]).group # <<>> }
  IN IF ~hasWeatherKeyword
     THEN err(errors_validation(
                "Please include a weather-related keyword in your message", Undefined))
     ELSE IF hits # {}
     THEN ok(trim(match(text, patterns[SetMin(hits)]).group))
     ELSE IF normalizedText = <<"U+5929", "U+6C17">>
               \/ normalizedText = <<"w", "e", "a", "t", "h", "e", "r">>
     THEN ok(<<"T", "o", "k", "y", "o">>)
     ELSE err(errors_validation(
                "Could not understand the city name. Try 'U+6771U+4EACU+306EU+5929U+6C17' or 'weather in Tokyo'",
                Undefined))

\* the events of a webhook delivery: a text message, a message that is not a
\* text, an event that is not a message
WebhookEvents ==
  { [type |-> "message", replyToken |-> "token-1",
     message |-> [type |-> "text", text |-> t]] : t \in Texts }
    \cup { [type |-> "message", replyToken |-> "token-1",
            message |-> [type |-> "image", text |-> <<>>]],
           [type |-> "follow", replyToken |-> "token-1",
            message |-> [type |-> "none", text |-> <<>>]] }

\* what the promise of client.replyMessage settles to
ReplySettlements == {Fulfilled(Obj)} \cup { Rejected(x) : x \in Reasons }

\* client.replyMessage(replyToken, {type: "text", text})
ReplyCall(replyToken, text) == [replyToken |-> replyToken, type |-> "text", text |-> text]

\* mutant: the reply names the failure that caused the error
weatherReply_leaky(ev, result) ==
  IF isErr(result)
  THEN LET error == unwrapErr(result).v IN
       ReplyCall(ev.replyToken,
                 "Sorry, I couldn't get weather information: " \o error.message
                   \o (IF error.kind = "infrastructure" /\ Truthy(error.cause)
                       THEN " (" \o error.cause.name \o ")" ELSE ""))
  ELSE LET data == unwrap(result).v IN
       ReplyCall(ev.replyToken,
                 IF Truthy(data.activities) THEN data.activities.v
                 ELSE "Weather information is currently unavailable.")

\* the reply handleEvent makes once it holds the Result of getWeatherData
weatherReply(ev, result) ==
  IF isErr(result)
  THEN ReplyCall(ev.replyToken,
                 "Sorry, I couldn't get weather information: "
                   \o unwrapErr(result).v.message)
  ELSE LET data == unwrap(result).v IN
       ReplyCall(ev.replyToken,
                 IF Truthy(data.activities) THEN data.activities.v
                 ELSE "Weather information is currently unavailable.")

\* handleEvent from its call to its first await or to its return.  Nothing in
\* its try block throws: the calls of client.replyMessage are returned, not
\* awaited, and getWeatherData catches what its collaborators throw.
HandleEvent(ev, got) ==
  /\ cpc = "idle"
  /\ event' = ev
  /\ UNCHANGED chatGenerated
  /\ IF ev.type # "message" \/ ev.message.type # "text"
     THEN /\ cpc' = "done"
          /\ handled' = Fulfilled(Undefined)
          /\ UNCHANGED <<cityResult, chatCalls, chatWeatherResult, replies>>
     ELSE LET parsed == parseMessageForCity(ev.message.text) IN
          /\ cityResult' = parsed
          /\ UNCHANGED handled
          /\ IF isErr(parsed)
             THEN /\ replies' = <<ReplyCall(ev.replyToken, unwrapErr(parsed).v.message)>>
                  /\ cpc' = "awaitReply"
                  /\ UNCHANGED <<chatCalls, chatWeatherResult>>
             ELSE LET started == getWeatherData_start(Join(unwrap(parsed).v), got) IN
                  /\ chatCalls' = started.calls
                  /\ chatWeatherResult' = started.result
                  /\ IF started.awaits
                     THEN cpc' = "awaitAgent" /\ UNCHANGED replies
                     ELSE /\ cpc' = "awaitReply"
                          /\ replies' = <<weatherReply(ev, started.result)>>

\* agent.generate settles: getWeatherData completes and handleEvent replies
ChatGenerateSettles(promise) ==
  /\ cpc = "awaitAgent"
  /\ chatGenerated' = promise
  /\ chatWeatherResult' = getWeatherData_generated(promise)
  /\ replies' = Append(replies, weatherReply(event, chatWeatherResult'))
  /\ cpc' = "awaitReply"
  /\ UNCHANGED <<event, cityResult, chatCalls, handled>>

\* the promise of client.replyMessage settles, and with it the promise of
\* handleEvent, which returned it
ReplySettles(promise) ==
  /\ cpc = "awaitReply"
  /\ handled' = promise
  /\ cpc' = "done"
  /\ UNCHANGED <<event, cityResult, chatCalls, chatGenerated, chatWeatherResult,
                 replies>>

(* SpecChat: one event handed to handleEvent, against every text and every *)
(* behaviour of the agent and of the reply API                             *)

NextChat ==
  \/ \E ev \in WebhookEvents, got \in GetAgentOutcomes :
        HandleEvent(ev, got) /\ UNCHANGED <<pipeVars, httpVars, algVars, inv, hook>>
  \/ \E p \in Settlements(AgentResponses) :
        ChatGenerateSettles(p) /\ UNCHANGED <<pipeVars, httpVars, algVars, inv, hook>>
  \/ \E p \in ReplySettlements :
        ReplySettles(p) /\ UNCHANGED <<pipeVars, httpVars, algVars, inv, hook>>

SpecChat == Init /\ [][NextChat]_vars

----------------------------------------------------------------------------
(* Two invocations in flight together.  The functions keep what they need     *)
(* across an await in their own parameters and constants (location, name;     *)
(* city), one frame for each invocation; no module-level binding is assigned. *)

\* mutant: the continuations read the frame of the first invocation, as they
\* would read a binding shared by all of them
frame_shared(i) == inv[1]

\* the frame a continuation of invocation i reads
frame(i) == inv[i]

\* the places the two invocations are called with
PairPlaces == {"Tokyo", "Osaka"}

\* the responses the lookups of the two invocations get: a rejection, no
\* candidate, one candidate; a rejection, an unreadable body, a full response
PairGeocodingSettlements ==
  { p \in Settlements(GeocodingBodies) :
      \/ p.settled = "rejected" /\ p.reason.name = "TypeError"
      \/ p.settled = "fulfilled" /\ p.value.t = "object" /\ Len(p.value.results) <= 1 }

PairWeatherSettlements ==
  { p \in Settlements(ToolWeatherBodies) :
      \/ p.settled = "rejected" /\ p.reason.name = "TypeError"
      \/ p.settled = "fulfilled" /\ p.value.t = "null"
      \/ /\ p.settled = "fulfilled"
         /\ p.value.t = "object"
         /\ p.value.current.temperature_2m \in {0, 22}
         /\ p.value.current.weather_code \in {0, 1} }

\* invocation i of getWeather is called
PairGetWeatherCall(i, loc) ==
  /\ inv[i].pc = "idle"
  /\ inv' = [inv EXCEPT ![i] =
               [@ EXCEPT !.fn = "getWeather", !.pc = "awaitGeocoding", !.arg = loc,
                         !.calls = <<GeocodingRequest(loc)>>]]

\* the geocoding promise of invocation i settles and the invocation resumes
PairGeocodingSettles(i, promise) ==
  LET step == getWeather_geocoded(frame(i).arg, promise) IN
  /\ inv[i].pc = "awaitGeocoding"
  /\ inv[i].fn = "getWeather"
  /\ inv' = [inv EXCEPT ![i] =
               [@ EXCEPT !.settled = Append(@, promise),
                         !.outcome = step.completion,
                         !.pc = CASE step.next = "fetch" -> "awaitWeather"
                                  [] step.next = "throw" -> "threw"
                                  [] OTHER -> "returned",
                         !.name = IF step.next = "fetch"
                                  THEN results0(promise.value).v.name ELSE @,
                         !.calls = IF step.next = "fetch"
                                   THEN Append(@, step.request) ELSE @]]

\* the forecast promise of invocation i settles and the invocation completes
PairWeatherSettles(i, promise) ==
  LET step == getWeather_weather(frame(i).name, promise) IN
  /\ inv[i].pc = "awaitWeather"
  /\ inv[i].fn = "getWeather"
  /\ inv' = [inv EXCEPT ![i] =
               [@ EXCEPT !.settled = Append(@, promise),
                         !.outcome = step.completion,
                         !.pc = IF step.completion.threw THEN "threw" ELSE "returned"]]

\* invocation i of getWeatherData is called
PairGetWeatherDataCall(i, city, got) ==
  LET started == getWeatherData_start(city, got) IN
  /\ inv[i].pc = "idle"
  /\ inv' = [inv EXCEPT ![i] =
               [@ EXCEPT !.fn = "getWeatherData", !.arg = city,
                         !.calls = started.calls,
                         !.settled = <<got>>,
                         !.pc = IF started.awaits THEN "awaitAgent" ELSE "returned",
                         !.outcome = IF started.awaits THEN Pending
                                     ELSE Return(started.result)]]

\* agent.generate of invocation i settles and the invocation completes
PairGenerateSettles(i, promise) ==
  /\ inv[i].pc = "awaitAgent"
  /\ inv' = [inv EXCEPT ![i] =
               [@ EXCEPT !.settled = Append(@, promise),
                         !.outcome = Return(getWeatherData_generated(promise)),
                         !.pc = "returned"]]

(* SpecPair: two invocations, each of getWeather or of getWeatherData, against *)
(* every interleaving of their steps                                          *)

NextPair ==
  \/ \E i \in Invocations, loc \in PairPlaces :
        PairGetWeatherCall(i, loc) /\ UNCHANGED <<pipeVars, httpVars, algVars, chatVars, hook>>
  \/ \E i \in Invocations, p \in PairGeocodingSettlements :
        PairGeocodingSettles(i, p) /\ UNCHANGED <<pipeVars, httpVars, algVars, chatVars, hook>>
  \/ \E i \in Invocations, p \in PairWeatherSettlements :
        PairWeatherSettles(i, p) /\ UNCHANGED <<pipeVars, httpVars, algVars, chatVars, hook>>
  \/ \E i \in Invocations, city \in PairPlaces, got \in GetAgentOutcomes :
        /\ PairGetWeatherDataCall(i, city, got)
        /\ UNCHANGED <<pipeVars, httpVars, algVars, chatVars, hook>>
  \/ \E i \in Invocations, p \in Settlements(AgentResponses) :
        PairGenerateSettles(i, p) /\ UNCHANGED <<pipeVars, httpVars, algVars, chatVars, hook>>

SpecPair == Init /\ [][NextPair]_vars

----------------------------------------------------------------------------
(* The LINE webhook: app.post("/api/line/webhook") of server.ts and of the    *)
(* server in index.ts.  events.map(handleEvent) runs every handler to its     *)
(* first await, Promise.all waits for their promises, and the handlers go on  *)
(* in any interleaving.                                                       *)

Servers == {"server.ts", "index.ts"}

\* the reply token of the event at place i of a delivery
replyTokenOf(i) == "token-" \o <<"1", "2", "3", "4">>[i]

\* the events of a delivery: a text naming a place, a text without weather
\* keyword, a message that is not a text, an event that is not a message
EventKinds == {"place", "chat", "image", "follow"}

EventOf(kind, i) ==
  CASE kind = "place" ->
         [type |-> "message", replyToken |-> replyTokenOf(i),
          message |-> [type |-> "text",
                       text |-> <<"U+6771", "U+4EAC", "U+306E", "U+5929", "U+6C17">>]]
    [] kind = "chat" ->
         [type |-> "message", replyToken |-> replyTokenOf(i),
          message |-> [type |-> "text", text |-> <<"h", "e", "l", "l", "o">>]]
    [] kind = "image" ->
         [type |-> "message", replyToken |-> replyTokenOf(i),
          message |-> [type |-> "image", text |-> <<>>]]
    [] kind = "follow" ->
         [type |-> "follow", replyToken |-> replyTokenOf(i),
          message |-> [type |-> "none", text |-> <<>>]]

\* req.body.events: absent, or a list of events
Deliveries ==
  {Undefined}
    \cup { [t |-> "object",
            list |-> [i \in 1..Len(kinds) |-> EventOf(kinds[i], i)]] :
             kinds \in SeqsUpTo(EventKinds, MaxEvents) }

\* what agent.generate settles to for an event
HookAgentSettlements ==
  { Fulfilled(Undefined),
    Fulfilled([t |-> "object", text |-> Undefined]),
    Fulfilled([t |-> "object", text |-> Str("Sunny, 22C: walk in the park")]),
    Rejected([t |-> "error", name |-> "TypeError", message |-> "fetch failed"]) }

\* what the promise of the reply request settles to: the platform accepts the
\* reply, refuses it, or cannot be reached
HookReplySettlements ==
  { Fulfilled([t |-> "object", ok |-> TRUE]),
    Fulfilled([t |-> "object", ok |-> FALSE]),
    Rejected([t |-> "error", name |-> "TypeError", message |-> "fetch failed"]) }

\* what response.text() settles to
HookTextSettlements ==
  { Fulfilled(Str("Invalid reply token")),
    Rejected([t |-> "error", name |-> "TypeError", message |-> "body stream already read"]) }

\* the frame of a handleEvent that returned at once
EndedFrame ==
  [pc |-> "done", calls |-> <<>>, sends |-> <<>>, promise |-> Fulfilled(Undefined)]

\* server.ts, handleEvent from its call to its first await or its reply
handleEvent_start(ev, got) ==
  IF ev.type # "message" \/ ev.message.type # "text"
  THEN EndedFrame
  ELSE LET parsed == parseMessageForCity(ev.message.text) IN
       IF isErr(parsed)
       THEN [pc |-> "awaitReply", calls |-> <<>>,
             sends |-> <<ReplyCall(ev.replyToken, unwrapErr(parsed).v.message)>>,
             promise |-> Pending]
       ELSE LET started == getWeatherData_start(Join(unwrap(parsed).v), got) IN
            IF started.awaits
            THEN [pc |-> "awaitAgent", calls |-> started.calls, sends |-> <<>>,
                  promise |-> Pending]
            ELSE [pc |-> "awaitReply", calls |-> started.calls,
                  sends |-> <<weatherReply(ev, started.result)>>,
                  promise |-> Pending]

\* server.ts, handleEvent when agent.generate settles: getWeatherData completes
\* and the handler replies
handleEvent_generated(ev, f, promise) ==
  [f EXCEPT !.pc = "awaitReply",
            !.sends = Append(@, weatherReply(ev, getWeatherData_generated(promise)))]

\* server.ts, handleEvent when the promise of client.replyMessage settles: the
\* handler returned that promise, so its own promise settles the same way
handleEvent_replied(ev, f, promise) ==
  [f EXCEPT !.pc = "done", !.promise = promise]

\* index.ts: the fetch of https://api.line.me/v2/bot/message/reply
LineReplyFetch(replyToken, text) ==
  [replyToken |-> replyToken, messages |-> <<[type |-> "text", text |-> text]>>]

\* index.ts: the text of errorMessage
errorMessageText ==
  Str("U+30A8U+30E9U+30FCU+304CU+767AU+751FU+3057U+307EU+3057U+305FU+3002U+3082U+3046U+4E00U+5EA6U+304AU+8A66U+3057U+304FU+3060U+3055U+3044U+3002")

\* index.ts, the catch block of handleEvent: the error message is sent with the
\* reply token of the event
legacy_handleEvent_catch(ev, f) ==
  [f EXCEPT !.pc = "awaitErrorReply",
            !.sends = Append(@, LineReplyFetch(ev.replyToken, errorMessageText))]

\* index.ts, handleEvent from its call to its first await; getAgent may throw,
\* and agent.generate on a missing agent throws
legacy_handleEvent_start(ev, got) ==
  IF ev.type # "message" \/ ev.message.type # "text"
  THEN EndedFrame
  ELSE IF got.threw \/ ~Truthy(got.v)
  THEN legacy_handleEvent_catch(
         ev, [pc |-> "try", calls |-> <<GetAgentCall>>, sends |-> <<>>,
              promise |-> Pending])
  ELSE [pc |-> "awaitAgent",
        calls |-> <<GetAgentCall, [call |-> "generate", arg |-> Join(ev.message.text)]>>,
        sends |-> <<>>, promise |-> Pending]

\* index.ts, handleEvent when agent.generate settles: result.text is read and
\* the reply is sent
legacy_handleEvent_generated(ev, f, promise) ==
  IF promise.settled = "rejected"
  THEN legacy_handleEvent_catch(ev, f)
  ELSE IF ~Truthy(promise.value)
  THEN legacy_handleEvent_catch(ev, f)
  ELSE [f EXCEPT !.pc = "awaitReply",
                 !.sends = Append(@, LineReplyFetch(ev.replyToken, promise.value.text))]

\* index.ts, handleEvent when the fetch of the reply settles
legacy_handleEvent_replied(ev, f, promise) ==
  IF promise.settled = "rejected"
  THEN legacy_handleEvent_catch(ev, f)
  ELSE IF ~promise.value.ok
  THEN [f EXCEPT !.pc = "awaitText"]
  ELSE [f EXCEPT !.pc = "done", !.promise = Fulfilled(promise.value)]

\* index.ts, handleEvent when response.text() of a refused reply settles
legacy_handleEvent_text(ev, f, promise) ==
  IF promise.settled = "rejected"
  THEN legacy_handleEvent_catch(ev, f)
  ELSE [f EXCEPT !.pc = "done",
                 !.promise = Fulfilled([t |-> "object", ok |-> FALSE])]

\* index.ts, handleEvent when the fetch of the error message settles: a
\* rejection leaves the catch block and rejects the handler
legacy_handleEvent_errorReplied(ev, f, promise) ==
  [f EXCEPT !.pc = "done",
            !.promise = IF promise.settled = "rejected" THEN promise
                        ELSE Fulfilled(Undefined)]

\* the webhook handler from the arrival of the delivery to its first await or
\* its response
Webhook(server, events, got) ==
  /\ hook.pc = "idle"
  /\ IF ~Truthy(events) \/ Len(events.list) = 0
     THEN hook' = [server |-> server, pc |-> "responded", events |-> <<>>,
                   handlers |-> <<>>,
                   responses |-> <<[status |-> 200, body |-> [status |-> "ok"]]>>]
     ELSE hook' = [server |-> server, pc |-> "awaitAll", events |-> events.list,
                   handlers |->
                     [i \in 1..Len(events.list) |->
                        IF server = "server.ts"
                        THEN handleEvent_start(events.list[i], got)
                        ELSE legacy_handleEvent_start(events.list[i], got)],
                   responses |-> <<>>]

\* agent.generate of handler i settles
HookGenerateSettles(i, promise) ==
  /\ i \in 1..Len(hook.handlers)
  /\ hook.handlers[i].pc = "awaitAgent"
  /\ hook' = [hook EXCEPT !.handlers[i] =
                IF hook.server = "server.ts"
                THEN handleEvent_generated(hook.events[i], @, promise)
                ELSE legacy_handleEvent_generated(hook.events[i], @, promise)]

\* the reply request of handler i settles
HookReplySettles(i, promise) ==
  /\ i \in 1..Len(hook.handlers)
  /\ hook.handlers[i].pc = "awaitReply"
  /\ promise \in (IF hook.server = "server.ts" THEN ReplySettlements
                   ELSE HookReplySettlements)
  /\ hook' = [hook EXCEPT !.handlers[i] =
                IF hook.server = "server.ts"
                THEN handleEvent_replied(hook.events[i], @, promise)
                ELSE legacy_handleEvent_replied(hook.events[i], @, promise)]

\* response.text() of handler i settles
HookTextSettles(i, promise) ==
  /\ i \in 1..Len(hook.handlers)
  /\ hook.handlers[i].pc = "awaitText"
  /\ hook' = [hook EXCEPT !.handlers[i] =
                legacy_handleEvent_text(hook.events[i], @, promise)]

\* the request carrying the error message of handler i settles
HookErrorReplySettles(i, promise) ==
  /\ i \in 1..Len(hook.handlers)
  /\ hook.handlers[i].pc = "awaitErrorReply"
  /\ hook' = [hook EXCEPT !.handlers[i] =
                legacy_handleEvent_errorReplied(hook.events[i], @, promise)]

\* Promise.all settles: rejected once a handler is rejected, fulfilled once all
\* are fulfilled; the webhook answers 500 or 200
PromiseAllSettles ==
  LET rejected == \E i \in 1..Len(hook.handlers) :
                    /\ hook.handlers[i].promise # Pending
                    /\ hook.handlers[i].promise.settled = "rejected"
      fulfilled == \A i \in 1..Len(hook.handlers) :
                     /\ hook.handlers[i].promise # Pending
                     /\ hook.handlers[i].promise.settled = "fulfilled"
  IN /\ hook.pc = "awaitAll"
     /\ rejected \/ fulfilled
     /\ hook' = [hook EXCEPT
                   !.pc = "responded",
                   !.responses =
                     IF rejected
                     THEN <<[status |-> 500, body |-> [error |-> "Internal server error"]]>>
                     ELSE <<[status |-> 200, body |-> [status |-> "ok"]]>>]

(* SpecWebhook: one delivery to either server, against every interleaving of *)
(* the handlers of its events                                                *)

NextWebhook ==
  \/ \E server \in Servers, events \in Deliveries, got \in GetAgentOutcomes :
        /\ Webhook(server, events, got)
        /\ UNCHANGED <<pipeVars, httpVars, algVars, chatVars, inv>>
  \/ \E i \in 1..MaxEvents, p \in HookAgentSettlements :
        HookGenerateSettles(i, p) /\ UNCHANGED <<pipeVars, httpVars, algVars, chatVars, inv>>
  \/ \E i \in 1..MaxEvents, p \in ReplySettlements \cup HookReplySettlements :
        HookReplySettles(i, p) /\ UNCHANGED <<pipeVars, httpVars, algVars, chatVars, inv>>
  \/ \E i \in 1..MaxEvents, p \in HookTextSettlements :
        HookTextSettles(i, p) /\ UNCHANGED <<pipeVars, httpVars, algVars, chatVars, inv>>
  \/ \E i \in 1..MaxEvents, p \in HookReplySettlements :
        HookErrorReplySettles(i, p) /\ UNCHANGED <<pipeVars, httpVars, algVars, chatVars, inv>>
  \/ PromiseAllSettles /\ UNCHANGED <<pipeVars, httpVars, algVars, chatVars, inv>>

SpecWebhook == Init /\ [][NextWebhook]_vars

----------------------------------------------------------------------------
(* Properties of the HTTP entry points *)

\* the Result the request ended with: the validation Err, else the Result of
\* getWeatherData
TerminalResult == IF isErr(validationResult) THEN validationResult ELSE dataResult

\* the status the adapter is to choose for a terminal Result
StatusByKind(result) ==
  IF isOk(result) THEN 200
  ELSE CASE result.error.kind = "validation" -> 400
         [] result.error.kind = "not-found" -> 404
         [] result.error.kind = "weather-api" ->
              IF result.error.statusCode = Undefined THEN 500
              ELSE result.error.statusCode.n
         [] OTHER -> 500

PlaceNameInvalid ==
  /\ hpc # "idle"
  /\ \/ request.t # "object"
     \/ request.city.t # "string"
     \/ request.city = Str("")

ValidationErrOf(field) ==
  /\ isErr(validationResult)
  /\ validationResult.error.kind = "validation"
  /\ validationResult.error.field = field

AnsweredWithoutCollaborator ==
  /\ hpc = "responded"
  /\ agentCalls = <<>>
  /\ generated = Pending
  /\ dataResult = Pending
  /\ Len(responses) = 1
  /\ responses[1].status = 400

\* C7 as stated: whenever the place name is missing, empty or not a string,
\* validation yields Err(Validation) with field "city" and the request is answered
\* without any collaborator being invoked.
C7_InvalidCityFieldCity ==
  PlaceNameInvalid => (ValidationErrOf(Str("city")) /\ AnsweredWithoutCollaborator)

\* C7 as amended: whenever the place name is missing, empty or not a string,
\* validation yields Err(Validation) and the request is answered 400 without any
\* collaborator being invoked; the error's field is "city" when the request's
\* query or body is an object, and absent when the POST body itself is missing.
C7_InvalidCityRejectedBeforeCalls ==
  PlaceNameInvalid =>
    /\ ValidationErrOf(IF request.t = "object" THEN Str("city") ELSE Undefined)
    /\ AnsweredWithoutCollaborator

C7_Witness ==
  /\ route = "POST /api/weather/suggest"
  /\ request.t = "object"
  /\ request.city = Str("")
  /\ ValidationErrOf(Str("city"))
  /\ AnsweredWithoutCollaborator

----------------------------------------------------------------------------------------------------------------------------------------
(* utils/result.ts: the composition functions.  A function handed to one of    *)
(* them is a TLA+ function; each operator yields what the call returns (ret),  *)
(* the arguments it invoked the function with, in order (invoked), the Result  *)
(* it was given as that object is once the call has returned (arg), and        *)
(* whether the Result it returns is that very object (same).                   *)

\* the values of type T and U, and the errors of type E and F
Values == {"v1", "v2"}
Errs == {"e1", "e2"}

Results == { ok(v) : v \in Values } \cup { err(e) : e \in Errs }

\* mutant: the value is wrapped again without applying fn
map_identity(result, f) ==
  IF isOk(result)
  THEN [ret |-> ok(result.value), invoked |-> <<>>, arg |-> result, same |-> FALSE]
  ELSE [ret |-> result, invoked |-> <<>>, arg |-> result, same |-> TRUE]

map(result, f) ==
  IF isOk(result)
  THEN [ret |-> ok(f[result.value]), invoked |-> <<result.value>>,
        arg |-> result, same |-> FALSE]
  ELSE [ret |-> result, invoked |-> <<>>, arg |-> result, same |-> TRUE]

\* mutant: the error is replaced inside the Result that was passed in
mapErr_inPlace(result, f) ==
  IF isErr(result)
  THEN [ret |-> err(f[result.error]), invoked |-> <<result.error>>,
        arg |-> err(f[result.error]), same |-> TRUE]
  ELSE [ret |-> result, invoked |-> <<>>, arg |-> result, same |-> TRUE]

mapErr(result, f) ==
  IF isErr(result)
  THEN [ret |-> err(f[result.error]), invoked |-> <<result.error>>,
        arg |-> result, same |-> FALSE]
  ELSE [ret |-> result, invoked |-> <<>>, arg |-> result, same |-> TRUE]

\* mutant: fn is invoked before the variant is looked at
andThen_eager(result, f) ==
  IF isOk(result)
  THEN [ret |-> f[result.value], invoked |-> <<result.value>>,
        arg |-> result, same |-> FALSE]
  ELSE [ret |-> result, invoked |-> <<"undefined">>, arg |-> result, same |-> TRUE]

\* the Result returned for an Ok is the one fn made
andThen(result, f) ==
  IF isOk(result)
  THEN [ret |-> f[result.value], invoked |-> <<result.value>>,
        arg |-> result, same |-> FALSE]
  ELSE [ret |-> result, invoked |-> <<>>, arg |-> result, same |-> TRUE]

\* mutant: fn is invoked before the variant is looked at
andThenAsync_eager(result, f) ==
  IF isOk(result)
  THEN [ret |-> f[result.value], invoked |-> <<result.value>>,
        arg |-> result, same |-> FALSE]
  ELSE [ret |-> Fulfilled(result), invoked |-> <<"undefined">>,
        arg |-> result, same |-> TRUE]

\* an async function: ret is the settled promise it returns, which adopts the
\* promise of fn; same tells whether that promise is fulfilled with the Result
\* that was passed in
andThenAsync(result, f) ==
  IF isOk(result)
  THEN [ret |-> f[result.value], invoked |-> <<result.value>>,
        arg |-> result, same |-> FALSE]
  ELSE [ret |-> Fulfilled(result), invoked |-> <<>>, arg |-> result, same |-> TRUE]

\* the functions handed to map, mapErr, andThen and andThenAsync
MapFns == [Values -> Values]
MapErrFns == [Errs -> Errs]
AndThenFns == [Values -> Results]
AsyncSettlements ==
  { Fulfilled(x) : x \in Results }
    \cup { Rejected([t |-> "error", name |-> "Error", message |-> "step failed"]) }
AndThenAsyncFns == [Values -> AsyncSettlements]

\* the promises handed to fromPromise, settled, and the functions handed to it
\* as mapError
PromiseSettlements ==
  { Fulfilled(v) : v \in Values } \cup { Rejected(x) : x \in Reasons }
MapErrorFns == [Reasons -> Errs]

\* what one application leaves behind
Applied(op, f, out, next) ==
  /\ Len(ops) < MaxChain
  /\ isOk(r) \/ isErr(r)
  /\ ops' = Append(ops, op)
  /\ spy' = spy \o [i \in 1..Len(out.invoked) |-> [op |-> op, arg |-> out.invoked[i]]]
  /\ last' = [op |-> op, input |-> r, f |-> f, output |-> out.ret,
               invoked |-> out.invoked, after |-> out.arg, same |-> out.same]
  /\ r' = next
  /\ UNCHANGED <<a0, r0>>

\* ok(v) or err(e) constructs the Result the chain starts from
Construct(by, arg, result) ==
  /\ r0 = Pending
  /\ a0' = [by |-> by, arg |-> arg]
  /\ r0' = result
  /\ r' = result
  /\ UNCHANGED <<ops, spy, last>>

\* await fromPromise(promise, mapError) makes the Result the chain starts from
FromPromiseStep(promise, mapError) ==
  LET out == fromPromise_settled(promise, mapError) IN
  /\ r0 = Pending
  /\ a0' = [by |-> "fromPromise", arg |-> promise]
  /\ r0' = (IF out.ret.settled = "fulfilled" THEN out.ret.value
            ELSE [kind |-> "rejected", reason |-> out.ret.reason])
  /\ r' = r0'
  /\ spy' = spy \o [i \in 1..Len(out.invoked) |->
                      [op |-> "fromPromise", arg |-> out.invoked[i]]]
  /\ last' = [op |-> "fromPromise", input |-> promise, f |-> mapError,
               output |-> out.ret, invoked |-> out.invoked]
  /\ UNCHANGED ops

MapStep(f) == Applied("map", f, map(r, f), map(r, f).ret)

MapErrStep(f) == Applied("mapErr", f, mapErr(r, f), mapErr(r, f).ret)

AndThenStep(f) == Applied("andThen", f, andThen(r, f), andThen(r, f).ret)

\* await andThenAsync(r, f): the chain goes on with the Result the promise is
\* fulfilled with, and ends when it is rejected
AndThenAsyncStep(f) ==
  LET out == andThenAsync(r, f) IN
  Applied("andThenAsync", f, out,
          IF out.ret.settled = "fulfilled" THEN out.ret.value
          ELSE [kind |-> "rejected", reason |-> out.ret.reason])

\* an extraction from the current Result: the chain goes on when the call
\* returns and ends when it throws
Extracted(op, d, out) ==
  /\ Len(ops) < MaxChain
  /\ isOk(r) \/ isErr(r)
  /\ ops' = Append(ops, op)
  /\ last' = [op |-> op, input |-> r, f |-> d, output |-> out]
  /\ r' = (IF out.threw THEN [kind |-> "thrown", reason |-> out.v] ELSE r)
  /\ UNCHANGED <<a0, r0, spy>>

UnwrapStep == Extracted("unwrap", "none", unwrap(r))

UnwrapErrStep == Extracted("unwrapErr", "none", unwrapErr(r))

UnwrapOrStep(defaultValue) ==
  Extracted("unwrapOr", defaultValue, unwrapOr(r, defaultValue))

(* SpecResult: every Result, made by ok, err or fromPromise, put through chains *)
(* of composition functions and extractions                                     *)

NextResult ==
  \/ \E v \in Values : Construct("ok", v, ok(v)) /\ UNCHANGED <<pipeVars, httpVars, chatVars, inv, hook>>
  \/ \E e \in Errs : Construct("err", e, err(e)) /\ UNCHANGED <<pipeVars, httpVars, chatVars, inv, hook>>
  \/ \E p \in PromiseSettlements, f \in MapErrorFns :
        FromPromiseStep(p, f) /\ UNCHANGED <<pipeVars, httpVars, chatVars, inv, hook>>
  \/ \E f \in MapFns : MapStep(f) /\ UNCHANGED <<pipeVars, httpVars, chatVars, inv, hook>>
  \/ \E f \in MapErrFns : MapErrStep(f) /\ UNCHANGED <<pipeVars, httpVars, chatVars, inv, hook>>
  \/ \E f \in AndThenFns : AndThenStep(f) /\ UNCHANGED <<pipeVars, httpVars, chatVars, inv, hook>>
  \/ \E f \in AndThenAsyncFns : AndThenAsyncStep(f) /\ UNCHANGED <<pipeVars, httpVars, chatVars, inv, hook>>
  \/ UnwrapStep /\ UNCHANGED <<pipeVars, httpVars, chatVars, inv, hook>>
  \/ UnwrapErrStep /\ UNCHANGED <<pipeVars, httpVars, chatVars, inv, hook>>
  \/ \E d \in Values : UnwrapOrStep(d) /\ UNCHANGED <<pipeVars, httpVars, chatVars, inv, hook>>

SpecResult == Init /\ [][NextResult]_vars

----------------------------------------------------------------------------
(* Properties of the weather pipelines *)

Steps ==
  <<"geocoding:start", "geocoding:settled", "forecast:start", "forecast:settled",
    "transform">>

ForecastCalled == \E i \in 1..Len(calls) : calls[i].api = "forecast"

GeocodingRejected == Len(settled) >= 1 /\ settled[1].settled = "rejected"

\* the geocoding lookup succeeded with a response that carries no candidate:
\* an object whose results are missing or empty
GeocodingEmpty ==
  /\ Len(settled) >= 1
  /\ settled[1].settled = "fulfilled"
  /\ settled[1].value.t = "object"
  /\ (~settled[1].value.hasResults \/ Len(settled[1].value.results) = 0)

GeocodingFound ==
  /\ Len(settled) >= 1
  /\ settled[1].settled = "fulfilled"
  /\ settled[1].value.t = "object"
  /\ settled[1].value.hasResults
  /\ Len(settled[1].value.results) >= 1

ForecastRejected == Len(settled) >= 2 /\ settled[2].settled = "rejected"

ReturnedErr == pc = "returned" /\ isErr(outcome.v)

\* C1: the steps run in the order geocoding lookup, forecast lookup,
\* transformation; the forecast lookup is started only after the geocoding lookup
\* has completed with at least one candidate; when the geocoding lookup fails or
\* returns zero candidates the forecast lookup is never invoked and the result is
\* the first Err, unchanged.
C1_SequentialShortCircuit ==
  /\ Len(trace) <= Len(Steps)
  /\ \A i \in 1..Len(trace) : trace[i] = Steps[i]
  /\ ForecastCalled =>
       /\ GeocodingFound
       /\ calls = <<GeocodingRequest(location), calls[2]>>
       /\ Len(trace) >= 3
  /\ GeocodingRejected =>
       /\ ~ForecastCalled
       /\ ReturnedErr
       /\ outcome.v = geocodingResult
       /\ weatherResult = Pending
  /\ GeocodingEmpty =>
       /\ ~ForecastCalled
       /\ ReturnedErr
       /\ outcome.v.error.kind = "not-found"
       /\ weatherResult = Pending

C1_Witness ==
  /\ fn = "fetchWeatherData"
  /\ GeocodingRejected
  /\ ReturnedErr
  /\ calls = <<GeocodingRequest(location)>>

\* C2: for every outcome of the two lookups the pipeline functions complete by
\* returning a Result and never by throwing or rejecting.
C2_NeverThrows == pc # "threw"

\* C3: when the geocoding lookup succeeds but carries zero candidates, the
\* pipeline returns Err(NotFound) with resource "location" and the place name as
\* id.
C3_ZeroCandidatesNotFound ==
  GeocodingEmpty =>
    /\ ReturnedErr
    /\ outcome.v.error.kind = "not-found"
    /\ outcome.v.error.resource = "location"
    /\ outcome.v.error.id = Str(location)

C3_Witness ==
  /\ fn = "getWeather"
  /\ GeocodingEmpty
  /\ settled[1].value.hasResults
  /\ location = "Atlantis"
  /\ ReturnedErr
  /\ outcome.v.error.id = Str("Atlantis")

\* C4: when the geocoding lookup rejects, the pipeline returns
\* Err(Infrastructure) whose cause is exactly the caught failure, and no forecast
\* lookup is made.
C4_GeocodingRejectionIsInfrastructure ==
  GeocodingRejected =>
    /\ ReturnedErr
    /\ outcome.v.error.kind = "infrastructure"
    /\ outcome.v.error.cause = settled[1].reason
    /\ ~ForecastCalled
    /\ Len(calls) = 1

C4_Witness ==
  /\ fn = "getWeather"
  /\ GeocodingRejected
  /\ settled[1].reason.name = "SyntaxError"
  /\ ReturnedErr
  /\ outcome.v.error.cause.name = "SyntaxError"

\* C5: when geocoding has succeeded with a candidate and the forecast lookup then
\* rejects, the pipeline returns Err(Infrastructure), not Ok, NotFound or a
\* thrown exception.
C5_ForecastRejectionIsInfrastructure ==
  (GeocodingFound /\ ForecastRejected) =>
    /\ ReturnedErr
    /\ outcome.v.error.kind = "infrastructure"

C5_Witness ==
  /\ GeocodingFound
  /\ ForecastRejected
  /\ ReturnedErr
  /\ outcome.v.error.kind = "infrastructure"
  /\ Len(calls) = 2

\* the forecast lookup was answered with a body the transformation can read
ForecastReadable ==
  /\ Len(settled) >= 2
  /\ settled[2].settled = "fulfilled"
  /\ settled[2].value.t = "object"
  /\ settled[2].value.hasCurrent
  /\ fn = "fetchWeatherData" => settled[2].value.hasHourly

\* the weather code of that body
ForecastCode ==
  IF fn = "getWeather" THEN settled[2].value.current.weather_code
  ELSE settled[2].value.current.weathercode

\* the condition text of the record the pipeline returned
ReturnedCondition ==
  IF fn = "getWeather" THEN outcome.v.value.conditions ELSE outcome.v.value.condition

\* C18: decoding a weather code is total and never an error: code 0 decodes to
\* "Clear sky", every code of the decoder's table to its entry and every other
\* code (999, say) to "Unknown"; a pipeline whose forecast carries such a code
\* still returns Ok, with the decoded text as its condition.
C18_DecodingTotal ==
  /\ \A i \in 1..Len(decoded) :
       LET d == decoded[i]
           table == IF d.decoder = "tools" THEN tools_conditions
                    ELSE workflows_conditions
       IN /\ d.code = 0 => d.text = "Clear sky"
          /\ d.code = 999 => d.text = "Unknown"
          /\ d.code \in DOMAIN table => d.text = table[d.code]
          /\ d.code \notin DOMAIN table => d.text = "Unknown"
  /\ pc = "decoded" => Len(decoded) = 1
  /\ ForecastReadable =>
       /\ pc = "returned"
       /\ isOk(outcome.v)
       /\ Len(decoded) = 1
       /\ decoded[1].code = ForecastCode
       /\ ReturnedCondition = decoded[1].text

C18_Witness ==
  /\ ForecastReadable
  /\ fn = "getWeather"
  /\ ForecastCode = 999
  /\ pc = "returned"
  /\ isOk(outcome.v)
  /\ outcome.v.value.conditions = "Unknown"

\* the fetch calls made for a lookup
Attempts(api) == { i \in 1..Len(calls) : calls[i].api = api }

\* C19: within one invocation of a pipeline each lookup is attempted at most
\* once: geocoding exactly once, the forecast at most once, and a lookup that
\* fails ends the invocation with an Err at once, no call being made after it.
C19_AtMostOneAttempt ==
  pc \in {"awaitGeocoding", "awaitWeather", "returned", "threw"} =>
    /\ Cardinality(Attempts("geocoding")) = 1
    /\ Cardinality(Attempts("forecast")) <= 1
    /\ Len(calls) <= 2
    /\ \A i \in 1..Len(settled) :
         settled[i].settled = "rejected" =>
           /\ i = Len(settled)
           /\ Len(calls) = i
           /\ ReturnedErr
           /\ outcome.v.error.cause = settled[i].reason

C19_Witness ==
  /\ pc = "returned"
  /\ fn = "fetchWeatherData"
  /\ calls = <<GeocodingRequest("Osaka"), ForecastRequest(3469, 13550)>>
  /\ ForecastRejected
  /\ ReturnedErr

\* the first candidate of the geocoding response, and the location of the
\* record the pipeline returned
FirstCandidate == settled[1].value.results[1]
ReturnedLocation == outcome.v.value.location

\* the entry of a decoding table for a code, "Unknown" when it has none
Entry(table, code) == IF code \in DOMAIN table THEN table[code] ELSE "Unknown"

\* C23: when the geocoding lookup returns at least one candidate and the
\* forecast lookup succeeds, the pipeline returns Ok whose location is the
\* display name of the first candidate and whose conditions is the decoding of
\* the returned weather code; the forecast is requested for the coordinates of
\* the first candidate, and later candidates influence nothing.
C23_FirstCandidateWins ==
  /\ (GeocodingFound /\ ForecastCalled) =>
       calls[2] = ForecastRequest(FirstCandidate.latitude, FirstCandidate.longitude)
  /\ (GeocodingFound /\ ForecastReadable) =>
       /\ pc = "returned"
       /\ isOk(outcome.v)
       /\ ReturnedLocation = FirstCandidate.name
       /\ ReturnedCondition =
            Entry(IF fn = "getWeather" THEN tools_conditions
                  ELSE workflows_conditions, ForecastCode)

\* C25: on success the numeric fields of getWeather's output are the fields
\* of the forecast response, each in its slot and unmodified: temperature is
\* temperature_2m, feelsLike apparent_temperature, humidity
\* relative_humidity_2m, windSpeed wind_speed_10m, windGust wind_gusts_10m.
C25_NumbersPassThrough ==
  (fn = "getWeather" /\ ForecastReadable) =>
    LET current == settled[2].value.current
        out == outcome.v.value
    IN /\ pc = "returned"
       /\ isOk(outcome.v)
       /\ out.temperature = current.temperature_2m
       /\ out.feelsLike = current.apparent_temperature
       /\ out.humidity = current.relative_humidity_2m
       /\ out.windSpeed = current.wind_speed_10m
       /\ out.windGust = current.wind_gusts_10m

C25_Witness ==
  /\ fn = "getWeather"
  /\ ForecastReadable
  /\ pc = "returned"
  /\ isOk(outcome.v)
  /\ settled[2].value.current.temperature_2m = -5
  /\ outcome.v.value.temperature = -5
  /\ outcome.v.value.feelsLike = -11
  /\ outcome.v.value.humidity = 85
  /\ outcome.v.value.windSpeed = 40
  /\ outcome.v.value.windGust = 75

\* a <= b for numbers that may be infinite
Leq(a, b) == a.inf < b.inf \/ (a.inf = b.inf /\ (a.inf # 0 \/ a.n <= b.n))

\* x is the largest element of xs
Largest(x, xs) ==
  /\ \E i \in 1..Len(xs) : xs[i] = x
  /\ \A i \in 1..Len(xs) : xs[i] <= x

\* x is the smallest element of xs
Smallest(x, xs) ==
  /\ \E i \in 1..Len(xs) : xs[i] = x
  /\ \A i \in 1..Len(xs) : x <= xs[i]

\* C26: for every forecast response, whatever the length of its hourly arrays
\* (zero included), the Ok output of fetchWeatherData has maxTemp the largest
\* and minTemp the smallest hourly temperature, so minTemp <= maxTemp, and
\* precipitationChance the largest hourly precipitation probability, never
\* below 0.
C26_MinMaxPeak ==
  (fn = "fetchWeatherData" /\ ForecastReadable) =>
    LET hourly == settled[2].value.hourly
        out == outcome.v.value
    IN /\ pc = "returned"
       /\ isOk(outcome.v)
       /\ Leq(out.minTemp, out.maxTemp)
       /\ hourly.temperature_2m # <<>> =>
            /\ out.maxTemp.inf = 0 /\ Largest(out.maxTemp.n, hourly.temperature_2m)
            /\ out.minTemp.inf = 0 /\ Smallest(out.minTemp.n, hourly.temperature_2m)
       /\ out.precipitationChance >= 0
       /\ hourly.precipitation_probability # <<>> =>
            Largest(out.precipitationChance, hourly.precipitation_probability)

----------------------------------------------------------------------------
(* Properties of the chat adapter *)

\* the text handleEvent replies with when it catches an exception
ApologyText == "Sorry, an error occurred while processing your request."

\* handleEvent has replied to a text message
Replied == cpc \in {"awaitReply", "done"} /\ replies # <<>>

\* parsing the message or looking the weather up ended in an Err
ChatErr ==
  \/ cityResult # Pending /\ isErr(cityResult)
  \/ chatWeatherResult # Pending /\ isErr(chatWeatherResult)

\* C20: whenever parsing the message or the weather lookup ends in an Err, the
\* reply handleEvent sends is one fixed apology text, whatever the error; when
\* both end in Ok the reply is the weather text.
C20_FixedApologyOnErr ==
  Replied =>
    /\ Len(replies) = 1
    /\ ChatErr => replies[1].text = ApologyText
    /\ ~ChatErr => replies[1].text = chatWeatherResult.value.activities.v

\* the weather lookup of the event ended in an Infrastructure error that
\* carries the exception of the collaborator as its cause
CausedErr ==
  /\ chatWeatherResult # Pending
  /\ isErr(chatWeatherResult)
  /\ chatWeatherResult.error.kind = "infrastructure"
  /\ Truthy(chatWeatherResult.error.cause)

\* C21: the text replied to a chat user does not depend on the cause an error
\* carries: every run of handleEvent whose lookup ends in an Infrastructure
\* error made from a collaborator's exception sends one and the same text,
\* whichever exception it was.
C21_ReplyIgnoresCause ==
  (Replied /\ CausedErr) =>
    /\ Len(replies) = 1
    /\ replies[1].text =
         "Sorry, I couldn't get weather information: Failed to get weather data"

C21_Witness ==
  /\ Replied
  /\ CausedErr
  /\ chatGenerated # Pending
  /\ chatGenerated.settled = "rejected"
  /\ chatWeatherResult.error.cause = chatGenerated.reason
  /\ chatWeatherResult.error.cause.name = "AbortError"
  /\ replies[1].text =
       "Sorry, I couldn't get weather information: Failed to get weather data"

\* handleEvent has parsed the text of a text message
Parsed == cpc # "idle" /\ cityResult # Pending

\* the particle no followed by the word for weather
NoTenki == <<"U+306E", "U+5929", "U+6C17">>

\* the text holds none of the weather keywords, letter case aside
NoWeatherKeyword(text) ==
  \A n \in 1..Len(weatherKeywords) : ~includes(toLowerCase(text), weatherKeywords[n])

\* the text has the form <X> NoTenki with X not empty
EndsInNoTenki(text) ==
  /\ Len(text) > Len(NoTenki)
  /\ startsAt(text, NoTenki, Len(text) - Len(NoTenki) + 1)

\* what parseMessageForCity returns is an Ok or an Err(Validation), and an
\* Err(Validation) for a text without a weather keyword
ParsedToOkOrValidation ==
  /\ isOk(cityResult) \/ isErr(cityResult)
  /\ isErr(cityResult) => cityResult.error.kind = "validation"
  /\ NoWeatherKeyword(event.message.text) =>
       /\ isErr(cityResult)
       /\ cityResult.error.kind = "validation"

C28_DecodersAgree ==
  \A i \in 1..Len(decoded) :
    LET d == decoded[i]
    IN  /\ tools_getWeatherCondition(d.code) = workflows_getWeatherCondition(d.code)
        /\ d.text = tools_getWeatherCondition(d.code)

\* C27: every place name a boundary adapter hands to the weather lookup is a
\* non-empty string: whenever validateWeatherRequest, validateSuggestRequest
\* or parseMessageForCity returns Ok, the name it carries has length at least 1.
C27_PlaceNameNonEmpty ==
  /\ (validationResult # Pending /\ isOk(validationResult)) =>
       validationResult.value.city # ""
  /\ (cityResult # Pending /\ isOk(cityResult)) =>
       Len(cityResult.value) >= 1

\* C29: a request to GET /api/weather or POST /api/weather/suggest is answered
\* exactly once on every path: a handler that has ended has sent one response,
\* which is the 400 of a validation Err (sent before any agent call), the error
\* response of a lookup Err, or the 200 of a success; a handler waiting for
\* the agent has sent none yet, and a rejection of the agent ends in a lookup
\* Err, never in a handler without response.
C29_AnsweredExactlyOnce ==
  /\ hpc = "awaitAgent" => responses = <<>>
  /\ hpc = "responded" =>
       /\ Len(responses) = 1
       /\ IF isErr(validationResult)
          THEN /\ responses[1].status = 400
               /\ agentCalls = <<>>
               /\ dataResult = Pending
          ELSE /\ dataResult # Pending
               /\ isErr(dataResult) <=> responses[1].status # 200
               /\ isErr(dataResult) =>
                    responses[1].status = errorStatus(unwrapErr(dataResult).v)
       /\ (generated # Pending /\ generated.settled = "rejected") =>
            (dataResult # Pending /\ isErr(dataResult))

C29_Witness ==
  /\ hpc = "responded"
  /\ generated # Pending
  /\ generated.settled = "rejected"
  /\ Len(responses) = 1
  /\ responses[1].status = 500

----------------------------------------------------------------------------
(* Properties of invocations in flight together *)

\* how getWeather(loc) completes when it runs alone and its lookups settle as ss
SoloGetWeather(loc, ss) ==
  IF ss = <<>> THEN Pending
  ELSE LET first == getWeather_geocoded(loc, ss[1]) IN
       IF first.next # "fetch" THEN first.completion
       ELSE IF Len(ss) = 1 THEN Pending
       ELSE getWeather_weather(results0(ss[1].value).v.name, ss[2]).completion

\* how getWeatherData(city) completes when it runs alone, mastra.getAgent
\* completing as ss[1] and agent.generate settling as ss[2]
SoloGetWeatherData(city, ss) ==
  LET started == getWeatherData_start(city, ss[1]) IN
  IF ~started.awaits THEN Return(started.result)
  ELSE IF Len(ss) = 1 THEN Pending
  ELSE Return(getWeatherData_generated(ss[2]))

Solo(f) ==
  CASE f.fn = "getWeather" -> SoloGetWeather(f.arg, f.settled)
    [] f.fn = "getWeatherData" -> SoloGetWeatherData(f.arg, f.settled)
    [] OTHER -> Pending

----------------------------------------------------------------------------
(* Properties of the Result algebra *)

OnlyAndThen == \A i \in 1..Len(ops) : ops[i] = "andThen"

\* C8: andThen(r, fn) returns exactly fn(v) when r is Ok(v), and returns r without
\* invoking fn when r is Err; so err(e) piped through a chain of three andThen
\* calls invokes none of the three functions and ends as err(e).
C8_AndThenShortCircuits ==
  /\ (last # Pending /\ last.op = "andThen") =>
       /\ isOk(last.input) =>
            /\ last.output = last.f[last.input.value]
            /\ last.invoked = <<last.input.value>>
       /\ isErr(last.input) =>
            /\ last.output = last.input
            /\ last.invoked = <<>>
  /\ (a0 # Pending /\ a0.by = "err" /\ OnlyAndThen) =>
       (spy = <<>> /\ r = r0 /\ r0 = err(a0.arg))

C8_Witness ==
  /\ ops = <<"andThen", "andThen", "andThen">>
  /\ a0.by = "err"
  /\ isErr(r0)
  /\ r = r0
  /\ spy = <<>>

\* C9: map and mapErr never invoke their function on the non-matching variant
\* and pass that variant through unchanged; on the matching variant the function
\* is called exactly once, map(ok(v), fn) = ok(fn(v)) and
\* mapErr(err(e), fn) = err(fn(e)).
C9_MapAndMapErr ==
  /\ (last # Pending /\ last.op = "map") =>
       /\ isErr(last.input) =>
            /\ last.output = last.input
            /\ last.invoked = <<>>
       /\ isOk(last.input) =>
            /\ last.output = ok(last.f[last.input.value])
            /\ last.invoked = <<last.input.value>>
  /\ (last # Pending /\ last.op = "mapErr") =>
       /\ isOk(last.input) =>
            /\ last.output = last.input
            /\ last.invoked = <<>>
       /\ isErr(last.input) =>
            /\ last.output = err(last.f[last.input.error])
            /\ last.invoked = <<last.input.error>>

C9_Witness ==
  /\ last # Pending
  /\ last.op = "map"
  /\ last.input = ok("v1")
  /\ last.f["v1"] = "v2"
  /\ last.output = ok("v2")
  /\ last.invoked = <<"v1">>
  /\ spy = <<[op |-> "map", arg |-> "v1"]>>

\* C10: andThenAsync(r, fn) invokes and awaits fn only when r is Ok(v), resolving
\* to the Result that fn(v) resolves to; when r is Err it resolves to that same
\* Err and fn is never invoked.
C10_AndThenAsync ==
  (last # Pending /\ last.op = "andThenAsync") =>
    /\ isOk(last.input) =>
         /\ last.output = last.f[last.input.value]
         /\ last.invoked = <<last.input.value>>
         /\ last.output.settled = "fulfilled" => r = last.f[last.input.value].value
    /\ isErr(last.input) =>
         /\ last.output = Fulfilled(last.input)
         /\ last.invoked = <<>>
         /\ r = last.input

C10_Witness ==
  /\ last # Pending
  /\ last.op = "andThenAsync"
  /\ isErr(last.input)
  /\ last.output = Fulfilled(last.input)
  /\ last.invoked = <<>>
  /\ r = last.input

----------------------------------------------------------------------------
(* Properties of fromPromise and of the extractions *)

\* C11: fromPromise(p, mapError) always resolves to a Result: to ok(v) when p is
\* fulfilled with v, without invoking mapError, and to err(mapError(x)) when p is
\* rejected with x, invoking mapError exactly once, on x; the promise it returns
\* is not rejected when p is.
C11_FromPromise ==
  (last # Pending /\ last.op = "fromPromise") =>
    /\ last.output.settled = "fulfilled"
    /\ r0 = last.output.value
    /\ last.input.settled = "fulfilled" =>
         /\ last.output.value = ok(last.input.value)
         /\ last.invoked = <<>>
         /\ spy = <<>>
    /\ last.input.settled = "rejected" =>
         /\ last.output.value = err(last.f[last.input.reason])
         /\ last.invoked = <<last.input.reason>>
         /\ spy = <<[op |-> "fromPromise", arg |-> last.input.reason]>>

C11_Witness ==
  /\ last # Pending
  /\ last.op = "fromPromise"
  /\ last.input.settled = "rejected"
  /\ last.input.reason.name = "SyntaxError"
  /\ last.f[last.input.reason] = "e2"
  /\ \E x \in DOMAIN last.f : last.f[x] = "e1"
  /\ last.output = Fulfilled(err("e2"))
  /\ Len(spy) = 1

\* C12: unwrap called on an Err and unwrapErr called on an Ok throw; neither
\* returns a value, be it a default, undefined or the other slot.
C12_WrongExtractionThrows ==
  /\ (last # Pending /\ last.op = "unwrap" /\ isErr(last.input)) =>
       /\ last.output.threw
       /\ last.output.v.name = "Error"
       /\ r.kind = "thrown"
  /\ (last # Pending /\ last.op = "unwrapErr" /\ isOk(last.input)) =>
       /\ last.output.threw
       /\ last.output.v.name = "Error"
       /\ r.kind = "thrown"

C12_Witness ==
  /\ last # Pending
  /\ last.op = "unwrap"
  /\ isErr(last.input)
  /\ last.output.threw
  /\ r.kind = "thrown"

\* C13: for every value v, isOk(ok(v)) is true and unwrap(ok(v)) is exactly v.
C13_OkRoundTrip ==
  (a0 # Pending /\ a0.by = "ok") =>
    /\ isOk(r0)
    /\ ops = <<"unwrap">> => last.output = Return(a0.arg)

C13_Witness ==
  /\ a0 # Pending
  /\ a0.by = "ok"
  /\ a0.arg = "v2"
  /\ isOk(r0)
  /\ ops = <<"unwrap">>
  /\ last.output = Return("v2")

\* C14: for every error e, isErr(err(e)) is true and unwrapErr(err(e)) is
\* exactly e.
C14_ErrRoundTrip ==
  (a0 # Pending /\ a0.by = "err") =>
    /\ isErr(r0)
    /\ ops = <<"unwrapErr">> => last.output = Return(a0.arg)

C14_Witness ==
  /\ a0 # Pending
  /\ a0.by = "err"
  /\ a0.arg = "e2"
  /\ isErr(r0)
  /\ ops = <<"unwrapErr">>
  /\ last.output = Return("e2")

ExactlyOneVariant(result) ==
  \/ isOk(result) /\ ~isErr(result)
  \/ isErr(result) /\ ~isOk(result)

\* C15: isOk and isErr are total and mutually exclusive: of every Result made by
\* ok, err, fromPromise or a composition function, exactly one of the two is true.
C15_ExactlyOneVariant ==
  /\ r0 # Pending => ExactlyOneVariant(r0)
  /\ (last # Pending /\ last.op \in {"map", "mapErr", "andThen"}) =>
       ExactlyOneVariant(last.output)
  /\ (last # Pending /\ last.op \in {"andThenAsync", "fromPromise"}
        /\ last.output.settled = "fulfilled") =>
       ExactlyOneVariant(last.output.value)

C15_Witness ==
  /\ last # Pending
  /\ last.op = "andThen"
  /\ isOk(r0)
  /\ isOk(last.input)
  /\ isErr(last.output)
  /\ ~isOk(last.output)

\* C16: unwrapOr(r, d) is total: it returns v when r is ok(v) and d when r is an
\* Err, and it never throws.
C16_UnwrapOrTotal ==
  (last # Pending /\ last.op = "unwrapOr") =>
    /\ ~last.output.threw
    /\ isOk(last.input) => last.output.v = last.input.value
    /\ isErr(last.input) => last.output.v = last.f
    /\ r = last.input

C16_Witness ==
  /\ last # Pending
  /\ last.op = "unwrapOr"
  /\ isErr(last.input)
  /\ last.f = "v2"
  /\ last.output = Return("v2")

Composed == last # Pending /\ last.op \in {"map", "mapErr", "andThen", "andThenAsync"}

\* the variant a composition function hands on without calling its function
PassedThrough ==
  IF last.op = "mapErr" THEN isOk(last.input) ELSE isErr(last.input)

----------------------------------------------------------------------------
(* Properties of the LINE webhook *)

\* the event is a text message
IsTextMessage(ev) == ev.type = "message" /\ ev.message.type = "text"

\* the handler of event i ended without failure
HandlerFulfilled(i) ==
  /\ hook.handlers[i].promise # Pending
  /\ hook.handlers[i].promise.settled = "fulfilled"

\* the reply requests of handler i are at most one, with the token of event i
AtMostOneReply(i) ==
  /\ Len(hook.handlers[i].sends) <= 1
  /\ \A n \in 1..Len(hook.handlers[i].sends) :
       hook.handlers[i].sends[n].replyToken = hook.events[i].replyToken

\* C30: in a webhook delivery whose events are handled concurrently, every
\* text-message event causes at most one reply request (its reply token is
\* used at most once), every other event causes none, and the webhook answers
\* 200 only if the handler of every event ended without failure.
C30_OneReplyPerEvent ==
  /\ \A i \in 1..Len(hook.handlers) :
       IF IsTextMessage(hook.events[i])
       THEN AtMostOneReply(i)
       ELSE hook.handlers[i].sends = <<>>
  /\ (hook.responses # <<>> /\ hook.responses[1].status = 200) =>
       \A i \in 1..Len(hook.handlers) : HandlerFulfilled(i)

============================================================================
